---- MODULE Spec2Model ----
(***************************************************************************)
(* A model of the contact-zone inference code (Anaphory/contact_zones):    *)
(*   - the feature-likelihood lookup table (preprocessing.py),             *)
(*   - the simulation harness (preprocessing.py),                          *)
(*   - the geo-prior estimator (preprocessing.py),                         *)
(*   - the zone sampler configured by experiments/marginal_likelihood.py.  *)
(* Each component has a specification of its own (SpecLookup, SpecWeights, *)
(* SpecProbs, SpecFeatures, SpecGeo, SpecNetwork, SpecSampler for the      *)
(* proposals of the chains and SpecMC3 for the schedule of a run); the     *)
(* variables of the other components stay at their idle value.             *)
(*                                                                         *)
(* Real numbers are exact rationals <<num, den>> (den > 0); a draw from a  *)
(* Dirichlet distribution is a point of the simplex in units of 1/Grid.    *)
(***************************************************************************)
EXTENDS Integers, Sequences, FiniteSets, TLC

VARIABLES
    \* --- feature-likelihood lookup
    lk_args,        \* arguments of precompute_feature_likelihood
    lk_pc,          \* "start" | "returned" | "raised"
    lookup_dict,    \* the returned table (nested dicts), "none" before
    lk_query,       \* the last query of the table and its outcome
    \* --- simulation harness
    sim_args,       \* arguments of the simulate_* function under study
    sim_pc,         \* "start" | "returned" | "raised"
    sim_out,        \* what the function returned
    \* --- geo-prior estimator
    geo_args,       \* [locations, geo_prior]
    geo_pc,         \* "start" | "returned" | "raised"
    parameters,     \* the returned parameter record
    network_reads,  \* the keys of network the call has read
    \* --- spatial network builder
    sites,          \* the sites dict: its keys and their values
    net_pc,         \* "start" | "returned" | "raised"
    net,            \* the returned network, or the error raised
    \* --- zone sampler
    config,         \* [min_size, max_size, start_size]
    zone,           \* chain -> set of sites currently in the zone
    last,           \* the last proposal: [chain, move, outcome, before]
    skipped,        \* chain -> the moves skipped in its current iteration
    \* --- the run of the sampler (generate_samples)
    mc3,            \* [n_chains, swap_period, chain_swaps, n_steps, burn_in, sizes]
    temperature,    \* chain -> temperature in hundredths
    holds,          \* chain -> the assignment object the chain works on
    objects,        \* assignment object -> [zone, ll, prior]
    iteration,      \* chain -> number of iterations completed
    checkpoint,     \* [completed, attempts]: swap checkpoints and exchange attempts
    shared,         \* writes to the network and the lookup table after construction
    samples,        \* the samples yielded: [iteration, chain, temperature]
    log,            \* the last action of the run
    \* --- get_family_priors
    prior_args,     \* [files]: per family the content of its counts file, or None
    prior_pc,       \* "ready" | "done"
    prior_out,      \* [raised, file, counts]
    \* --- get_global_frequencies
    freq_args,      \* [estimate_from_data, features, file]
    freq_pc,        \* "ready" | "done"
    freq_out,       \* [raised, names_file, value]
    \* --- simulate_families
    fam_args,       \* [n_sites, n_families, max_family_size, min_family_size]
    fam_pc,         \* "ready" | "done"
    fam_out,        \* [raised, families]
    \* --- Simulation.run_simulation
    simulation_config,  \* [use_subset, subset, areas]
    simulation_pc,      \* "ready" | "done"
    simulation          \* the fields of the Simulation object

vars == <<lk_args, lk_pc, lookup_dict, lk_query, sim_args, sim_pc, sim_out,
          geo_args, geo_pc, parameters, network_reads, sites, net_pc, net,
          config, zone, last, skipped, mc3, temperature, holds, objects, iteration, checkpoint,
          shared, samples, log, prior_args, prior_pc, prior_out,
          freq_args, freq_pc, freq_out, fam_args, fam_pc, fam_out,
          simulation_config, simulation_pc, simulation>>

lookupVars == <<lk_args, lk_pc, lookup_dict, lk_query>>
simVars == <<sim_args, sim_pc, sim_out>>
geoVars == <<geo_args, geo_pc, parameters, network_reads>>
networkVars == <<sites, net_pc, net>>
samplerVars == <<config, zone, last, skipped>>
mc3Vars == <<mc3, temperature, holds, objects, iteration, checkpoint, shared, samples, log>>
priorVars == <<prior_args, prior_pc, prior_out>>
freqVars == <<freq_args, freq_pc, freq_out>>
familyVars == <<fam_args, fam_pc, fam_out>>
simulationVars == <<simulation_config, simulation_pc, simulation>>

(***************************************************************************)
(* Exact arithmetic                                                        *)
(***************************************************************************)
RECURSIVE Pow(_, _)
Pow(b, e) == IF e = 0 THEN 1 ELSE b * Pow(b, e - 1)

RECURSIVE Binomial(_, _)
Binomial(n, k) ==
    IF k < 0 \/ k > n THEN 0
    ELSE IF k = 0 \/ k = n THEN 1
    ELSE Binomial(n - 1, k - 1) + Binomial(n - 1, k)

RECURSIVE SumFun(_)
\* sum of the values of a function with a finite domain
SumFun(f) ==
    IF DOMAIN f = {} THEN 0
    ELSE LET x == CHOOSE y \in DOMAIN f : TRUE
         IN f[x] + SumFun([y \in DOMAIN f \ {x} |-> f[y]])

RatLt(a, b) == a[1] * b[2] < b[1] * a[2]
RatLeq(a, b) == a[1] * b[2] <= b[1] * a[2]
RatEq(a, b) == a[1] * b[2] = b[1] * a[2]

(***************************************************************************)
(* Feature-likelihood lookup: precompute_feature_likelihood                *)
(***************************************************************************)
\* the marker of a missing value among the categories
MISSING == -1

\* scipy.stats.binom: P(X = k | n, p), p = <<a, b>>, as a numerator over b^n
binom_pmf_num(k, n, p) == Binomial(n, k) * Pow(p[1], k) * Pow(p[2] - p[1], n - k)

\* binom.sf(x, n, p) = P(X > x), binom.cdf(x, n, p) = P(X <= x)
binom_sf(x, n, p) ==
    <<SumFun([k \in {j \in 0..n : j > x} |-> binom_pmf_num(k, n, p)]), Pow(p[2], n)>>
binom_cdf(x, n, p) ==
    <<SumFun([k \in {j \in 0..n : j <= x} |-> binom_pmf_num(k, n, p)]), Pow(p[2], n)>>

\* a slip of the tail: the "less" alternative
binom_test_less(s_zone, n_zone, p_global) == binom_cdf(s_zone, n_zone, p_global)

\* stats.binom_test(s_zone, n_zone, p_global, 'greater'): P(X >= s_zone)
binom_test_greater(s_zone, n_zone, p_global) == binom_sf(s_zone - 1, n_zone, p_global)

\* Surprise values (lh) and scores are kept symbolically, as the function
\* applied and the tail probability p (0 <= p <= 1) it was applied to:
\*   lh:    "zero" (-ln 1), "neglog" (-ln p, 0 < p < 1), "recip" (1/p, p > 0),
\*          "inf"
\*   score: "neginf", "posinf", "fin" with f = "lnln" (ln(-ln p)) or
\*          f = "lnrec" (ln(1/p)); both are strictly decreasing in p
NegInf == [kind |-> "neginf"]
PosInf == [kind |-> "posinf"]
Fin(f, p) == [kind |-> "fin", f |-> f, p |-> p]
Raised(e) == [kind |-> "raise", error |-> e]

\* the sign of the logarithm lost: lh = math.log(p_value) <= 0
log_surprise_lh_unsigned(p_value) ==
    IF p_value[1] = 0 THEN Raised("ValueError")
    ELSE [kind |-> "zero"]

\* lh = -math.log(p_value) inside try/except Exception: print, raise e
\* (math.log(0) raises ValueError)
log_surprise_lh(p_value) ==
    IF p_value[1] = 0 THEN Raised("ValueError")
    ELSE IF p_value[1] = p_value[2] THEN [kind |-> "zero"]
    ELSE [kind |-> "neglog", p |-> p_value]

\* the reciprocal without its handler
reciprocal_lh_unhandled(p_value) ==
    IF p_value[1] = 0 THEN Raised("ZeroDivisionError")
    ELSE [kind |-> "recip", p |-> p_value]

\* lh = 1/p_value inside try/except ZeroDivisionError: lh = math.inf
reciprocal_lh(p_value) ==
    IF p_value[1] = 0 THEN [kind |-> "inf"]
    ELSE [kind |-> "recip", p |-> p_value]

\* return math.log(lh) inside try/except ValueError: return -math.inf
log_or_neginf(lh) ==
    CASE lh.kind = "zero" -> NegInf
      [] lh.kind = "inf" -> PosInf
      [] lh.kind = "neglog" -> Fin("lnln", lh.p)
      [] lh.kind = "recip" -> Fin("lnrec", lh.p)

\* precompute_feature_likelihood.ll
ll(s_zone, n_zone, p_global, log_surprise) ==
    LET p_value == binom_test_greater(s_zone, n_zone, p_global)
        lh == IF log_surprise THEN log_surprise_lh(p_value)
              ELSE reciprocal_lh(p_value)
    IN IF lh.kind = "raise" THEN lh ELSE log_or_neginf(lh)

\* range(n_zone) instead of range(n_zone + 1)
s_zone_range_short(n_zone) == 0..(n_zone - 1)

\* for s_zone in range(n_zone + 1)
s_zone_range(n_zone) == 0..n_zone

\* the categories that get an entry: if cat != -1
table_categories(categories) == {cat \in DOMAIN categories : cat # MISSING}

\* the nested dict the loops build
build_lookup(min_size, max_size, feat_prob, log_surprise) ==
    [features \in DOMAIN feat_prob |->
        [cat \in table_categories(feat_prob[features]) |->
            [n_zone \in min_size..max_size |->
                [s_zone \in s_zone_range(n_zone) |->
                    ll(s_zone, n_zone, feat_prob[features][cat], log_surprise)]]]]

\* the flat keys of a nested table
TableKeys(t) ==
    {k \in UNION {UNION {UNION {{<<f, c, n, s>> : s \in DOMAIN t[f][c][n]}
                                : n \in DOMAIN t[f][c]}
                         : c \in DOMAIN t[f]}
                  : f \in DOMAIN t} : TRUE}

TableAt(t, k) == t[k[1]][k[2]][k[3]][k[4]]

\* an exception of ll leaves the loops: nothing is returned
lookup_raises(t) == \E k \in TableKeys(t) : TableAt(t, k).kind = "raise"

\* the largest zone size of the lookup inputs
MaxSize == 3

Zero == <<0, 1>>
Quarter == <<1, 4>>
Half == <<1, 2>>
ThreeQuarters == <<3, 4>>
One == <<1, 1>>

\* the per-feature category tables the inputs are drawn from
CatTables ==
    { (0 :> Half @@ 1 :> Half),
      (MISSING :> Quarter @@ 0 :> Quarter @@ 1 :> Half),
      (0 :> Zero @@ 1 :> One),
      (0 :> ThreeQuarters @@ 1 :> Quarter),
      (0 :> Quarter @@ 1 :> Quarter @@ 2 :> Half) }

FeatProbs == UNION {[D -> CatTables] : D \in {{0}, {0, 1}}}

LookupArgs ==
    {a \in [min_size : 1..MaxSize, max_size : 1..MaxSize,
            feat_prob : FeatProbs, log_surprise : BOOLEAN] :
        a.min_size <= a.max_size}

LookupInit ==
    /\ lk_args \in LookupArgs
    /\ lk_pc = "start"
    /\ lookup_dict = "none"
    /\ lk_query = "none"
    /\ sim_args = "idle" /\ sim_pc = "idle" /\ sim_out = "none"
    /\ geo_args = "idle" /\ geo_pc = "idle" /\ parameters = "none" /\ network_reads = {}
    /\ sites = "idle" /\ net_pc = "idle" /\ net = "none"
    /\ prior_args = "idle" /\ prior_pc = "idle" /\ prior_out = "none"
    /\ freq_args = "idle" /\ freq_pc = "idle" /\ freq_out = "none"
    /\ fam_args = "idle" /\ fam_pc = "idle" /\ fam_out = "none"
    /\ simulation_config = "idle" /\ simulation_pc = "idle" /\ simulation = "none"
    /\ config = "idle" /\ zone = "none" /\ last = "none" /\ skipped = "idle"
    /\ mc3 = "idle" /\ temperature = "idle" /\ holds = "idle" /\ objects = "idle"
    /\ iteration = "idle" /\ checkpoint = "idle" /\ shared = "idle" /\ samples = "idle"
    /\ log = "idle"

\* precompute_feature_likelihood(min_size, max_size, feat_prob, log_surprise)
precompute_feature_likelihood ==
    /\ lk_pc = "start"
    /\ LET t == build_lookup(lk_args.min_size, lk_args.max_size,
                             lk_args.feat_prob, lk_args.log_surprise)
       IN IF lookup_raises(t)
          THEN lk_pc' = "raised" /\ lookup_dict' = "none"
          ELSE lk_pc' = "returned" /\ lookup_dict' = t
    /\ UNCHANGED <<lk_args, lk_query>>
    /\ UNCHANGED <<simVars, geoVars, networkVars, samplerVars, mc3Vars,
                   priorVars, freqVars, familyVars, simulationVars>>

\* lookup_dict[features][cat][n_zone][s_zone] on plain dicts: a missing key
\* raises KeyError and the dicts are left as they are
dict_lookup(t, k) ==
    IF /\ k[1] \in DOMAIN t
       /\ k[2] \in DOMAIN t[k[1]]
       /\ k[3] \in DOMAIN t[k[1]][k[2]]
       /\ k[4] \in DOMAIN t[k[1]][k[2]][k[3]]
    THEN TableAt(t, k)
    ELSE Raised("KeyError")

QueryKeys ==
    (DOMAIN lk_args.feat_prob) \X (MISSING..2) \X (0..(MaxSize + 1)) \X (0..(MaxSize + 2))

\* a caller reads one entry of the returned table
Query ==
    /\ lk_pc = "returned"
    /\ \E k \in QueryKeys :
          lk_query' = [key |-> k, outcome |-> dict_lookup(lookup_dict, k)]
    /\ lk_pc' = "queried"
    /\ UNCHANGED <<lk_args, lookup_dict>>
    /\ UNCHANGED <<simVars, geoVars, networkVars, samplerVars, mc3Vars,
                   priorVars, freqVars, familyVars, simulationVars>>

LookupNext == precompute_feature_likelihood \/ Query

SpecLookup == LookupInit /\ [][LookupNext]_vars

\* the order of scores: -inf < every finite score < +inf, and finite scores
\* of one mode are ordered against their tail probabilities
ScoreRank(x) == CASE x.kind = "neginf" -> 0 [] x.kind = "fin" -> 1 [] x.kind = "posinf" -> 2
ScoreLt(x, y) ==
    \/ ScoreRank(x) < ScoreRank(y)
    \/ x.kind = "fin" /\ y.kind = "fin" /\ x.f = y.f /\ RatLt(y.p, x.p)
ScoreLeq(x, y) == x = y \/ ScoreLt(x, y) \/ (x.kind = "fin" /\ y.kind = "fin" /\ x.f = y.f /\ RatEq(x.p, y.p))

LookupReturned == lk_pc \in {"returned", "queried"}

\* the keys the table is to hold, read off the arguments
ExpectedKeys ==
    {k \in (DOMAIN lk_args.feat_prob) \X (MISSING..2) \X (0..MaxSize) \X (0..MaxSize) :
        /\ k[2] \in DOMAIN lk_args.feat_prob[k[1]]
        /\ k[2] # MISSING
        /\ lk_args.min_size <= k[3] /\ k[3] <= lk_args.max_size
        /\ k[4] <= k[3]}

\* C2: in a returned table, for every feature, every non-missing category
\* and every zone size n in [min_size, max_size], the score is non-decreasing
\* in the observed count s (with -inf as the least value).
C2_ScoreMonotoneInCount ==
    LookupReturned =>
        \A f \in DOMAIN lk_args.feat_prob :
        \A c \in DOMAIN lk_args.feat_prob[f] \ {MISSING} :
        \A n \in lk_args.min_size..lk_args.max_size :
        \A s1, s2 \in 0..n :
            s1 < s2 => ScoreLeq(lookup_dict[f][c][n][s1], lookup_dict[f][c][n][s2])

\* a returned table with -inf at s = 0 and strictly growing finite scores after
C2_Witness ==
    /\ lk_pc = "returned"
    /\ \E f \in DOMAIN lookup_dict : \E c \in DOMAIN lookup_dict[f] :
       \E n \in DOMAIN lookup_dict[f][c] :
          /\ n >= 2
          /\ lookup_dict[f][c][n][0] = NegInf
          /\ lookup_dict[f][c][n][1].kind = "fin"
          /\ ScoreLt(lookup_dict[f][c][n][1], lookup_dict[f][c][n][2])

\* C3: a returned table has an entry for exactly the keys (feature, category,
\* n, s) with category # -1, min_size <= n <= max_size and 0 <= s <= n; a
\* query of any other key fails with KeyError, and the table still holds
\* exactly those keys after the query.
C3_ExactKeysNoAutoExtend ==
    LookupReturned =>
        /\ TableKeys(lookup_dict) = ExpectedKeys
        /\ lk_pc = "queried" =>
              /\ lk_query.key \notin ExpectedKeys => lk_query.outcome = Raised("KeyError")
              /\ lk_query.key \in ExpectedKeys => lk_query.outcome.kind # "raise"

\* a query of the missing-value category, which feat_prob holds, has failed
C3_Witness ==
    /\ lk_pc = "queried"
    /\ lk_query.key[2] = MISSING
    /\ MISSING \in DOMAIN lk_args.feat_prob[lk_query.key[1]]
    /\ lk_args.min_size <= lk_query.key[3] /\ lk_query.key[3] <= lk_args.max_size
    /\ lk_query.key[4] <= lk_query.key[3]
    /\ lk_query.outcome = Raised("KeyError")

\* C4 (as claimed): in log-surprise mode precompute_feature_likelihood never
\* lets an exception reach the caller; a zero tail probability is clamped.
C4_LogSurpriseNeverRaises ==
    (lk_pc # "start" /\ lk_args.log_surprise) => lk_pc # "raised"

\* C5: with feat_prob = {0: {0: 0.5, 1: 0.5}}, min_size = max_size = 2 in
\* log-surprise mode, both categories get a finite score at (n = 2, s = 2)
\* that is strictly greater than the score at (n = 2, s = 1).
C5_Scenario2 ==
    ( /\ lk_pc # "start"
      /\ lk_args = [min_size |-> 2, max_size |-> 2, log_surprise |-> TRUE,
                    feat_prob |-> (0 :> (0 :> Half @@ 1 :> Half))] )
    => /\ LookupReturned
       /\ \A c \in {0, 1} :
            /\ lookup_dict[0][c][2][2].kind = "fin"
            /\ ScoreLt(lookup_dict[0][c][2][1], lookup_dict[0][c][2][2])

\* the scenario's table has been returned
C5_Witness ==
    /\ lk_pc = "returned"
    /\ lk_args = [min_size |-> 2, max_size |-> 2, log_surprise |-> TRUE,
                  feat_prob |-> (0 :> (0 :> Half @@ 1 :> Half))]
    /\ lookup_dict[0][1][2][2] = Fin("lnln", <<1, 4>>)

\* C6: in reciprocal mode the call never raises; an entry whose tail
\* probability is 0 holds +inf and any other entry holds ln(1 / p_tail).
C6_ReciprocalZeroTail ==
    (lk_pc # "start" /\ ~lk_args.log_surprise) =>
        /\ LookupReturned
        /\ \A k \in ExpectedKeys :
             LET p_tail == binom_sf(k[4] - 1, k[3], lk_args.feat_prob[k[1]][k[2]])
             IN TableAt(lookup_dict, k) =
                    IF p_tail[1] = 0 THEN PosInf ELSE Fin("lnrec", p_tail)

\* a reciprocal-mode table with an entry of +inf
C6_Witness ==
    /\ lk_pc = "returned"
    /\ ~lk_args.log_surprise
    /\ \E k \in TableKeys(lookup_dict) : TableAt(lookup_dict, k) = PosInf

(***************************************************************************)
(* Simulation harness: draws from numpy's generators                       *)
(***************************************************************************)
\* the resolution of a Dirichlet draw: components are multiples of 1/Grid
Grid == 2
\* the largest number of features simulate_weights is asked for
MaxFeatures == 2

\* np.random.dirichlet(alpha, size=1): a point of the simplex with one
\* component per entry of alpha, here indexed from 0
dirichlet(alpha) ==
    {v \in [0..(Len(alpha) - 1) -> 0..Grid] : SumFun(v) = Grid}

\* np.random.dirichlet(alpha, n): n such points
dirichlet_n(alpha, n) == [0..(n - 1) -> dirichlet(alpha)]

\* the inheritance flag ignored
alpha_sim_always_three(f_global, f_contact, f_inheritance, inheritance) ==
    <<f_global, f_contact, f_inheritance>>

\* simulate_weights: alpha_sim
alpha_sim(f_global, f_contact, f_inheritance, inheritance) ==
    IF inheritance THEN <<f_global, f_contact, f_inheritance>>
    ELSE <<f_global, f_contact>>

WeightsArgs ==
    [fn : {"simulate_weights"}, f_global : 1..2, f_contact : 1..2, f_inheritance : 1..2,
     inheritance : BOOLEAN, n_features : 1..MaxFeatures]

WeightsInit ==
    /\ sim_args \in WeightsArgs
    /\ sim_pc = "start"
    /\ sim_out = "none"
    /\ lk_args = "idle" /\ lk_pc = "idle" /\ lookup_dict = "none" /\ lk_query = "none"
    /\ geo_args = "idle" /\ geo_pc = "idle" /\ parameters = "none" /\ network_reads = {}
    /\ sites = "idle" /\ net_pc = "idle" /\ net = "none"
    /\ prior_args = "idle" /\ prior_pc = "idle" /\ prior_out = "none"
    /\ freq_args = "idle" /\ freq_pc = "idle" /\ freq_out = "none"
    /\ fam_args = "idle" /\ fam_pc = "idle" /\ fam_out = "none"
    /\ simulation_config = "idle" /\ simulation_pc = "idle" /\ simulation = "none"
    /\ config = "idle" /\ zone = "none" /\ last = "none" /\ skipped = "idle"
    /\ mc3 = "idle" /\ temperature = "idle" /\ holds = "idle" /\ objects = "idle"
    /\ iteration = "idle" /\ checkpoint = "idle" /\ shared = "idle" /\ samples = "idle"
    /\ log = "idle"

\* simulate_weights(f_global, f_contact, f_inheritance, inheritance, n_features)
simulate_weights ==
    /\ sim_pc = "start"
    /\ sim_args.fn = "simulate_weights"
    /\ \E weights \in dirichlet_n(alpha_sim(sim_args.f_global, sim_args.f_contact,
                                             sim_args.f_inheritance, sim_args.inheritance),
                                   sim_args.n_features) :
          sim_out' = [weights |-> weights]
    /\ sim_pc' = "returned"
    /\ UNCHANGED sim_args
    /\ UNCHANGED <<lookupVars, geoVars, networkVars, samplerVars, mc3Vars,
                   priorVars, freqVars, familyVars, simulationVars>>

WeightsNext == simulate_weights

SpecWeights == WeightsInit /\ [][WeightsNext]_vars

\* C7: simulate_weights returns one weight vector per feature, with exactly
\* 3 components (universal, contact, inheritance) when inheritance is enabled
\* and exactly 2 otherwise, every component non-negative and each vector
\* summing to 1 (Grid units of 1/Grid).
C7_WeightsShapeAndSum ==
    (sim_pc = "returned" /\ sim_args.fn = "simulate_weights") =>
        /\ DOMAIN sim_out.weights = 0..(sim_args.n_features - 1)
        /\ \A f \in DOMAIN sim_out.weights :
             LET w == sim_out.weights[f] IN
             /\ DOMAIN w = 0..((IF sim_args.inheritance THEN 3 ELSE 2) - 1)
             /\ \A k \in DOMAIN w : w[k] >= 0
             /\ SumFun(w) = Grid

\* two features drawn without inheritance, one of them with contact weight 0
C7_Witness ==
    /\ sim_pc = "returned"
    /\ sim_args.fn = "simulate_weights"
    /\ ~sim_args.inheritance
    /\ sim_args.n_features = 2
    /\ sim_out.weights[0] = (0 :> Grid @@ 1 :> 0)
    /\ sim_out.weights[1] = (0 :> 1 @@ 1 :> (Grid - 1))

(***************************************************************************)
(* simulate_assignment_probabilities                                       *)
(***************************************************************************)
Max(S) == CHOOSE x \in S : \A y \in S : y <= x

\* every row filled over the whole padded width
filled_categories_padded(cat_f, max_categories) == 0..(max_categories - 1)

\* the indices a row is assigned at: range(cat_f)
filled_categories(cat_f, max_categories) == 0..(cat_f - 1)

\* np.zeros(max_categories) with row[range(cat_f)] = np.random.dirichlet([alpha] * cat_f)
probability_rows(cat_f, max_categories) ==
    LET filled == filled_categories(cat_f, max_categories) IN
    { [c \in 0..(max_categories - 1) |-> IF c \in filled THEN d[c] ELSE 0] :
        d \in dirichlet([i \in 1..Cardinality(filled) |-> 1]) }

\* a table of one row per feature
probability_tables(n_categories, max_categories) ==
    LET rows == UNION {probability_rows(n_categories[f], max_categories) :
                        f \in DOMAIN n_categories}
    IN {t \in [DOMAIN n_categories -> rows] :
          \A f \in DOMAIN n_categories :
             t[f] \in probability_rows(n_categories[f], max_categories)}

\* zones and families: boolean rows over the sites
NoRows == <<>>
OneRow == << <<TRUE, FALSE, FALSE>> >>

\* p_number_categories: the probability of a feature with k categories
NumberCategoriesDicts ==
    { (1 :> Half @@ 2 :> Half), (1 :> One), (2 :> One), (1 :> Zero @@ 2 :> One) }

\* np.random.choice(a=cat, p=p_cat): a key of positive probability
random_choice(p_number_categories) ==
    {k \in DOMAIN p_number_categories : p_number_categories[k][1] > 0}

ProbsArgs ==
    {a \in [fn : {"simulate_assignment_probabilities"}, n_features : {2},
            p_number_categories : NumberCategoriesDicts,
            inheritance : BOOLEAN, zones : {NoRows, OneRow},
            families : {NoRows, OneRow}] :
        \* families = None (here NoRows) when inheritance is not simulated
        ~a.inheritance => a.families = NoRows}

ProbsInit ==
    /\ sim_args \in ProbsArgs
    /\ sim_pc = "start"
    /\ sim_out = "none"
    /\ lk_args = "idle" /\ lk_pc = "idle" /\ lookup_dict = "none" /\ lk_query = "none"
    /\ geo_args = "idle" /\ geo_pc = "idle" /\ parameters = "none" /\ network_reads = {}
    /\ sites = "idle" /\ net_pc = "idle" /\ net = "none"
    /\ prior_args = "idle" /\ prior_pc = "idle" /\ prior_out = "none"
    /\ freq_args = "idle" /\ freq_pc = "idle" /\ freq_out = "none"
    /\ fam_args = "idle" /\ fam_pc = "idle" /\ fam_out = "none"
    /\ simulation_config = "idle" /\ simulation_pc = "idle" /\ simulation = "none"
    /\ config = "idle" /\ zone = "none" /\ last = "none" /\ skipped = "idle"
    /\ mc3 = "idle" /\ temperature = "idle" /\ holds = "idle" /\ objects = "idle"
    /\ iteration = "idle" /\ checkpoint = "idle" /\ shared = "idle" /\ samples = "idle"
    /\ log = "idle"

\* simulate_assignment_probabilities(n_features, p_number_categories,
\*     inheritance, zones, ..., families)
simulate_assignment_probabilities ==
    /\ sim_pc = "start"
    /\ sim_args.fn = "simulate_assignment_probabilities"
    /\ \E n_categories \in [0..(sim_args.n_features - 1) ->
                                random_choice(sim_args.p_number_categories)] :
       LET max_categories == Max({n_categories[f] : f \in DOMAIN n_categories})
           n_zones == Len(sim_args.zones)
           tables == probability_tables(n_categories, max_categories)
       IN \E p_global \in tables :
          \E p_zones \in [0..(n_zones - 1) -> tables] :
             IF ~sim_args.inheritance
             THEN \* return p_global, p_zones, None
                  sim_out' = [n_categories |-> n_categories, p_global |-> p_global,
                              p_zones |-> p_zones, p_families_none |-> TRUE,
                              p_families |-> <<>>]
             ELSE \E p_families \in [0..(Len(sim_args.families) - 1) -> tables] :
                    sim_out' = [n_categories |-> n_categories, p_global |-> p_global,
                                p_zones |-> p_zones, p_families_none |-> FALSE,
                                p_families |-> p_families]
    /\ sim_pc' = "returned"
    /\ UNCHANGED sim_args
    /\ UNCHANGED <<lookupVars, geoVars, networkVars, samplerVars, mc3Vars,
                   priorVars, freqVars, familyVars, simulationVars>>

ProbsNext == simulate_assignment_probabilities

SpecProbs == ProbsInit /\ [][ProbsNext]_vars

\* the tables a call returned: p_global, one per zone, one per family
ReturnedTables ==
    {sim_out.p_global}
    \cup {sim_out.p_zones[z] : z \in DOMAIN sim_out.p_zones}
    \cup (IF sim_out.p_families_none THEN {}
          ELSE {sim_out.p_families[m] : m \in DOMAIN sim_out.p_families})

\* C8: in every table simulate_assignment_probabilities returns (p_global,
\* p_zones per zone, p_families per family) the row of a feature f with cat_f
\* categories sums to 1 over the indices 0..cat_f-1 and is exactly 0 at every
\* index from cat_f up to the maximum category count.
C8_RowsSumToOneZeroPadding ==
    (sim_pc = "returned" /\ sim_args.fn = "simulate_assignment_probabilities") =>
        LET max_categories == Max({sim_out.n_categories[f] : f \in DOMAIN sim_out.n_categories})
        IN /\ DOMAIN sim_out.p_zones = 0..(Len(sim_args.zones) - 1)
           /\ sim_out.p_families_none = ~sim_args.inheritance
           /\ sim_args.inheritance =>
                 DOMAIN sim_out.p_families = 0..(Len(sim_args.families) - 1)
           /\ \A t \in ReturnedTables :
              \A f \in 0..(sim_args.n_features - 1) :
                LET cat_f == sim_out.n_categories[f] IN
                /\ DOMAIN t[f] = 0..(max_categories - 1)
                /\ SumFun([c \in 0..(cat_f - 1) |-> t[f][c]]) = Grid
                /\ \A c \in cat_f..(max_categories - 1) : t[f][c] = 0

\* a zone and a family, and a feature with fewer categories than the maximum
C8_Witness ==
    /\ sim_pc = "returned"
    /\ sim_args.fn = "simulate_assignment_probabilities"
    /\ sim_args.inheritance
    /\ Len(sim_args.zones) = 1
    /\ Len(sim_args.families) = 1
    /\ sim_out.n_categories = (0 :> 1 @@ 1 :> 2)
    /\ sim_out.p_zones[0][0] = (0 :> Grid @@ 1 :> 0)
    /\ sim_out.p_families[0][1] = (0 :> 1 @@ 1 :> (Grid - 1))

(***************************************************************************)
(* simulate_zones and simulate_features                                    *)
(* Arrays are functions indexed from 0; a zone_id is [kind, v] with kind   *)
(* "int", "tuple" (v a sequence of ints) or "other".                       *)
(***************************************************************************)
Range(n) == 0..(n - 1)

RECURSIVE distinct_in_order(_)
\* the keys of a dict filled in the order of seq
distinct_in_order(seq) ==
    IF seq = <<>> THEN <<>>
    ELSE LET front == distinct_in_order(SubSeq(seq, 1, Len(seq) - 1))
             x == seq[Len(seq)]
         IN IF \E i \in 1..Len(front) : front[i] = x THEN front ELSE Append(front, x)

\* get_contact_zones: the ids that are keys of contact_zones, in order
contact_zone_ids(zone_id) ==
    IF zone_id.kind = "int" THEN zone_id.v ELSE distinct_in_order(zone_id.v)

\* simulate_zones: np.zeros((n_zones, n_sites), bool) with zones[k, z_id] = 1
\* for the sites of the k-th zone; n_sites is kept for the empty matrix
zones_matrix(zone_id, sites_sim) ==
    LET ids == contact_zone_ids(zone_id) IN
    [n_sites |-> Cardinality(DOMAIN sites_sim.id),
     rows |-> [k \in Range(Len(ids)) |->
                 [site \in DOMAIN sites_sim.cz |-> sites_sim.cz[site] = ids[k + 1]]]]

\* np.all in the place of np.any: TRUE for every site when there is no row
all_rows(rows, n_sites) ==
    [site \in Range(n_sites) |-> \A k \in DOMAIN rows : rows[k][site]]

\* np.any(rows, axis=0)
any_row(rows, n_sites) ==
    [site \in Range(n_sites) |-> \E k \in DOMAIN rows : rows[k][site]]

\* the 0/1 value of a boolean
Bit(b) == IF b THEN 1 ELSE 0

\* rows.T.dot(p[:, i_feat, :]): per site and category, the sum over the rows
\* the site belongs to
membership_dot(rows, p, i_feat, site, c) ==
    SumFun([k \in DOMAIN rows |-> Bit(rows[k][site]) * p[k][i_feat][c]])

\* normalize_weights(weights, assignment): the weights of the components
\* that apply to the site, rescaled to sum to 1, as numerators over den
normalize_weights(w, assignment) ==
    [num |-> [k \in DOMAIN w |-> w[k] * assignment[k]],
     den |-> SumFun([k \in DOMAIN w |-> w[k] * assignment[k]])]

\* the mixture of simulate_features for one feature, site and category: the
\* summands of lh_feature as numerators over the common denominator den
\* (the normalising sum of the weights times Grid)
lh_feature(a, zones, p_contact, zone_assignment, i_feat, site, c) ==
    LET family_assignment == any_row(a.families, zones.n_sites)
        assignment == IF a.inheritance
                      THEN (0 :> 1 @@ 1 :> Bit(zone_assignment[site])
                              @@ 2 :> Bit(family_assignment[site]))
                      ELSE (0 :> 1 @@ 1 :> Bit(zone_assignment[site]))
        normed_weights == normalize_weights(a.weights[i_feat], assignment)
        lh_global == a.p_global[i_feat][c]
        lh_zone == membership_dot(zones.rows, p_contact, i_feat, site, c)
        lh_family == membership_dot(a.families, a.p_inheritance, i_feat, site, c)
    IN [universal |-> normed_weights.num[0] * lh_global,
        contact |-> normed_weights.num[1] * lh_zone,
        inheritance |-> IF a.inheritance THEN normed_weights.num[2] * lh_family ELSE 0,
        den |-> normed_weights.den * Grid]

Mass(m) == m.universal + m.contact + m.inheritance

\* sample_categorical: np.argmax(z < cdf) for z in [0, 1): the first category
\* whose cumulative mass exceeds z, and 0 when none does
sample_categorical(row) ==
    LET cum_before(c) == SumFun([d \in {e \in DOMAIN row : e < c} |-> Mass(row[d])])
        den == row[0].den
    IN {c \in DOMAIN row : Mass(row[c]) > 0 /\ cum_before(c) < den}
       \cup (IF SumFun([d \in DOMAIN row |-> Mass(row[d])]) < den THEN {0} ELSE {})

\* features_cat: np.zeros((n_sites, n_features, len(cats))) filled at index
\* cat for every cat of np.unique(features); an index >= len(cats) raises
one_hot_raises(features) ==
    LET cats == {features[site][f] : site \in DOMAIN features, f \in DOMAIN features[0]}
    IN \E cat \in cats : cat >= Cardinality(cats)

one_hot(features) ==
    LET cats == {features[site][f] : site \in DOMAIN features, f \in DOMAIN features[0]}
    IN [site \in DOMAIN features |-> [f \in DOMAIN features[site] |->
          [c \in Range(Cardinality(cats)) |-> Bit(features[site][f] = c)]]]

\* the sites file: three sites, cz the zone id of each (0: no zone)
SitesSim ==
    { [id |-> (0 :> 0 @@ 1 :> 1 @@ 2 :> 2), cz |-> (0 :> 1 @@ 1 :> 1 @@ 2 :> 0)],
      [id |-> (0 :> 0 @@ 1 :> 1 @@ 2 :> 2), cz |-> (0 :> 1 @@ 1 :> 2 @@ 2 :> 0)] }

ZoneIds ==
    { [kind |-> "tuple", v |-> <<>>], [kind |-> "int", v |-> <<1>>],
      [kind |-> "tuple", v |-> <<1, 2>>], [kind |-> "tuple", v |-> <<2, 2>>],
      [kind |-> "other", v |-> <<>>] }

\* one feature with two categories
OneFeatureTables == probability_tables((0 :> 2), 2)

\* one family of the sites 1 and 2
OneFamily == (0 :> (0 :> FALSE @@ 1 :> TRUE @@ 2 :> TRUE))

\* weight vectors with a positive universal weight, one per feature
PositiveWeights(inheritance) ==
    [{0} -> {w \in dirichlet(alpha_sim(1, 1, 1, inheritance)) : w[0] > 0}]

FeaturesArgs ==
    {a \in [fn : {"simulate_features"}, zone_id : ZoneIds, sites_sim : SitesSim,
            inheritance : BOOLEAN, families : {<<>>, OneFamily},
            p_global : OneFeatureTables,
            p_inheritance : {<<>>} \cup [{0} -> OneFeatureTables],
            weights : PositiveWeights(TRUE) \cup PositiveWeights(FALSE)] :
        /\ a.weights \in PositiveWeights(a.inheritance)
        /\ a.families = (IF a.inheritance THEN OneFamily ELSE <<>>)
        /\ DOMAIN a.p_inheritance = DOMAIN a.families}

FeaturesInit ==
    /\ sim_args \in FeaturesArgs
    /\ sim_pc = "start"
    /\ sim_out = "none"
    /\ lk_args = "idle" /\ lk_pc = "idle" /\ lookup_dict = "none" /\ lk_query = "none"
    /\ geo_args = "idle" /\ geo_pc = "idle" /\ parameters = "none" /\ network_reads = {}
    /\ sites = "idle" /\ net_pc = "idle" /\ net = "none"
    /\ prior_args = "idle" /\ prior_pc = "idle" /\ prior_out = "none"
    /\ freq_args = "idle" /\ freq_pc = "idle" /\ freq_out = "none"
    /\ fam_args = "idle" /\ fam_pc = "idle" /\ fam_out = "none"
    /\ simulation_config = "idle" /\ simulation_pc = "idle" /\ simulation = "none"
    /\ config = "idle" /\ zone = "none" /\ last = "none" /\ skipped = "idle"
    /\ mc3 = "idle" /\ temperature = "idle" /\ holds = "idle" /\ objects = "idle"
    /\ iteration = "idle" /\ checkpoint = "idle" /\ shared = "idle" /\ samples = "idle"
    /\ log = "idle"

\* simulate_zones(zone_id, sites_sim), through get_contact_zones
simulate_zones ==
    /\ sim_pc = "start"
    /\ sim_args.fn = "simulate_features"
    /\ IF sim_args.zone_id.kind \notin {"int", "tuple"}
       THEN \* raise ValueError('zone_id must be int or a tuple of int')
            sim_pc' = "raised" /\ sim_out' = [error |-> "ValueError"]
       ELSE /\ sim_pc' = "zones"
            /\ sim_out' = [zones |-> zones_matrix(sim_args.zone_id, sim_args.sites_sim)]
    /\ UNCHANGED sim_args
    /\ UNCHANGED <<lookupVars, geoVars, networkVars, samplerVars, mc3Vars,
                   priorVars, freqVars, familyVars, simulationVars>>

\* np.all where np.any is meant
zone_assignment_all(zones) == all_rows(zones.rows, zones.n_sites)

\* zone_assignment = np.any(zones, axis=0)
zone_assignment_of(zones) == any_row(zones.rows, zones.n_sites)

\* simulate_features(zones, families, p_global, p_contact, p_inheritance,
\*                   weights, inheritance), p_contact with one table per zone
simulate_features ==
    /\ sim_pc = "zones"
    /\ sim_args.fn = "simulate_features"
    /\ \E p_contact \in [DOMAIN sim_out.zones.rows -> OneFeatureTables] :
       LET zones == sim_out.zones
           zone_assignment == zone_assignment_of(zones)
           lh == [i_feat \in DOMAIN sim_args.p_global |->
                    [site \in Range(zones.n_sites) |->
                       [c \in DOMAIN sim_args.p_global[i_feat] |->
                          lh_feature(sim_args, zones, p_contact, zone_assignment,
                                     i_feat, site, c)]]]
       IN \E features \in [Range(zones.n_sites) ->
                              [DOMAIN sim_args.p_global -> Range(2)]] :
            /\ \A site \in DOMAIN features : \A i_feat \in DOMAIN features[site] :
                  features[site][i_feat] \in sample_categorical(lh[i_feat][site])
            /\ sim_pc' = IF one_hot_raises(features) THEN "raised" ELSE "returned"
            /\ sim_out' = [zones |-> zones, p_contact |-> p_contact,
                           zone_assignment |-> zone_assignment, lh |-> lh,
                           features |-> features,
                           features_cat |-> IF one_hot_raises(features) THEN <<>>
                                            ELSE one_hot(features)]
    /\ UNCHANGED sim_args
    /\ UNCHANGED <<lookupVars, geoVars, networkVars, samplerVars, mc3Vars,
                   priorVars, freqVars, familyVars, simulationVars>>

FeaturesNext == simulate_zones \/ simulate_features

SpecFeatures == FeaturesInit /\ [][FeaturesNext]_vars

FeaturesDrawn ==
    /\ sim_args.fn = "simulate_features"
    /\ sim_pc \in {"returned", "raised"}
    /\ "features" \in DOMAIN sim_out

\* C9: with zone_id = () simulate_zones returns a matrix without rows; in
\* simulate_features zone_assignment is then False for every site, the
\* contact summand of every site's distribution is 0, the universal and
\* inheritance summands alone sum to 1, and every value drawn has positive
\* mass under them.
C9_NoZonesNoContactMass ==
    (sim_args.fn = "simulate_features" /\ sim_args.zone_id = [kind |-> "tuple", v |-> <<>>]
        /\ sim_pc # "start") =>
        /\ "zones" \in DOMAIN sim_out
        /\ DOMAIN sim_out.zones.rows = {}
        /\ FeaturesDrawn =>
             /\ \A site \in DOMAIN sim_out.zone_assignment : ~sim_out.zone_assignment[site]
             /\ \A i_feat \in DOMAIN sim_out.lh : \A site \in DOMAIN sim_out.lh[i_feat] :
                  LET row == sim_out.lh[i_feat][site] IN
                  /\ \A c \in DOMAIN row : row[c].contact = 0
                  /\ ~sim_args.inheritance => \A c \in DOMAIN row : row[c].inheritance = 0
                  /\ SumFun([c \in DOMAIN row |-> row[c].universal + row[c].inheritance])
                        = row[0].den
                  /\ LET drawn == sim_out.features[site][i_feat]
                     IN row[drawn].universal + row[drawn].inheritance > 0

\* features drawn without zones for a site inside and a site outside the
\* family, inheritance simulated
C9_Witness ==
    /\ FeaturesDrawn
    /\ sim_pc = "returned"
    /\ sim_args.zone_id = [kind |-> "tuple", v |-> <<>>]
    /\ sim_args.inheritance
    /\ sim_args.weights[0][2] > 0
    /\ sim_out.lh[0][1][1].inheritance > 0
    /\ sim_out.lh[0][0][1].inheritance = 0
    /\ sim_out.features[1][0] = 1

\* C25: simulate_features returns for every valid input a one-hot array with
\* one entry per site, feature and category of p_global: every entry is 0 or
\* 1 and every site/feature pair has exactly one active category, whichever
\* categories happen to be drawn.
C25_OneHotOverAllCategories ==
    FeaturesDrawn =>
        /\ sim_pc = "returned"
        /\ \A site \in DOMAIN sim_out.features : \A i_feat \in DOMAIN sim_out.features[site] :
              LET row == sim_out.features_cat[site][i_feat] IN
              /\ DOMAIN row = DOMAIN sim_args.p_global[i_feat]
              /\ \A c \in DOMAIN row : row[c] \in {0, 1}
              /\ SumFun(row) = 1
              /\ row[sim_out.features[site][i_feat]] = 1

\* ---------------------------------------------------------------------
\* estimate_geo_prior_parameters
\* ---------------------------------------------------------------------

Abs(x) == IF x < 0 THEN 0 - x ELSE x

\* np.linalg.norm of a difference vector (exact on the sites used here,
\* whose pairwise distances are whole numbers)
norm(dx, dy) == CHOOSE r \in 0..(Abs(dx) + Abs(dy)) : r * r = dx * dx + dy * dy

\* the distance of every site to the first one
dist_mat_to_first(locations) ==
    [i \in DOMAIN locations |-> [j \in DOMAIN locations |->
        norm(locations[i].x - locations[0].x, locations[i].y - locations[0].y)]]

\* dist_mat of compute_network: diff = locations[:, None] - locations
dist_mat(locations) ==
    [i \in DOMAIN locations |-> [j \in DOMAIN locations |->
        norm(locations[i].x - locations[j].x, locations[i].y - locations[j].y)]]

\* twice the signed area of the triangle a, b, c
orient(a, b, c) == (b.x - a.x) * (c.y - a.y) - (b.y - a.y) * (c.x - a.x)

\* d lies strictly inside the circle through a, b, c
in_circle(a, b, c, d) ==
    LET ax == a.x - d.x  ay == a.y - d.y  a2 == ax * ax + ay * ay
        bx == b.x - d.x  by == b.y - d.y  b2 == bx * bx + by * by
        cx == c.x - d.x  cy == c.y - d.y  c2 == cx * cx + cy * cy
        det == ax * (by * c2 - b2 * cy) - ay * (bx * c2 - b2 * cx)
                 + a2 * (bx * cy - by * cx)
    IN det * orient(a, b, c) > 0

\* the segments of two edges cross in an interior point
crossing(locations, e, f) ==
    \E a, b \in e : \E c, d \in f :
        /\ a # b /\ c # d /\ e \cap f = {}
        /\ orient(locations[a], locations[b], locations[c])
             * orient(locations[a], locations[b], locations[d]) < 0
        /\ orient(locations[c], locations[d], locations[a])
             * orient(locations[c], locations[d], locations[b]) < 0

\* compute_delaunay(locations): the edge sets of the Delaunay triangulations
\* of the sites, more than one when four sites lie on a circle; the
\* adjacency matrix is symmetric, so an edge is an unordered pair
compute_delaunay(locations) ==
    LET V == DOMAIN locations
        triangles == {t \in SUBSET V : /\ Cardinality(t) = 3
                        /\ \E a, b, c \in t :
                             /\ a # b /\ b # c /\ a # c
                             /\ orient(locations[a], locations[b], locations[c]) # 0
                             /\ \A d \in V \ t :
                                  ~in_circle(locations[a], locations[b], locations[c],
                                             locations[d])}
        candidates == {e \in SUBSET V : Cardinality(e) = 2 /\ \E t \in triangles : e \subseteq t}
        planar(E) == \A e, f \in E : ~crossing(locations, e, f)
    IN {E \in SUBSET candidates :
           /\ planar(E)
           /\ \A e \in candidates \ E : ~planar(E \cup {e})}

\* mst = delaunay.multiply(dist_mat); mst.nonzero(): the index pairs of the
\* entries that are not zero, both directions of every edge
nonzero(delaunay, dist) ==
    {ij \in (DOMAIN dist) \X (DOMAIN dist) :
        {ij[1], ij[2]} \in delaunay /\ dist[ij[1]][ij[2]] # 0}

RECURSIVE SumOverPairs(_, _)
SumOverPairs(f, S) ==
    IF S = {} THEN 0
    ELSE LET ij == CHOOSE x \in S : TRUE IN f[ij] + SumOverPairs(f, S \ {ij})

\* np.mean(mst.tocsr()[mst.nonzero()]) as the fraction sum / count
mean_distance(delaunay, dist) ==
    LET nz == nonzero(delaunay, dist)
    IN <<SumOverPairs([ij \in nz |-> dist[ij[1]][ij[2]]], nz), Cardinality(nz)>>

\* np.cov(diffs.T) of diffs = locations[i1] - locations[i2] minus their mean,
\* over the index pairs nz: the 2x2 matrix of the fractions
\* sum((N d_a - S_a)(N d_b - S_b)) / (N^2 (N - 1))
covariance_over(nz, locations) ==
    LET N == Cardinality(nz)
        d(ij, a) == IF a = 1 THEN locations[ij[1]].x - locations[ij[2]].x
                    ELSE locations[ij[1]].y - locations[ij[2]].y
        S(a) == SumOverPairs([ij \in nz |-> d(ij, a)], nz)
        entry(a, b2) == <<SumOverPairs([ij \in nz |->
                              (N * d(ij, a) - S(a)) * (N * d(ij, b2) - S(b2))], nz),
                          N * N * (N - 1)>>
    IN << <<entry(1, 1), entry(1, 2)>>, <<entry(2, 1), entry(2, 2)>> >>

\* i1, i2 = mst.nonzero(); parameters["gaussian"] = np.cov(diffs.T)
covariance(delaunay, locations, dist) ==
    covariance_over(nonzero(delaunay, dist), locations)

\* corners of a 3 x 4 rectangle: every pairwise distance is 3, 4 or 5
SitePool == {[x |-> 0, y |-> 0], [x |-> 3, y |-> 0], [x |-> 0, y |-> 4], [x |-> 3, y |-> 4]}

\* three or four distinct sites in any order
Locations ==
    {l \in UNION {[Range(n) -> SitePool] : n \in {3, 4}} :
        \A i, j \in DOMAIN l : i # j => l[i] # l[j]}

GeoArgs ==
    [locations : Locations, geo_prior : {"uniform", "gaussian", "distance", "exponential"}]

GeoInit ==
    /\ geo_args \in GeoArgs
    /\ geo_pc = "start"
    /\ parameters = "none"
    /\ network_reads = {}
    /\ sites = "idle" /\ net_pc = "idle" /\ net = "none"
    /\ prior_args = "idle" /\ prior_pc = "idle" /\ prior_out = "none"
    /\ freq_args = "idle" /\ freq_pc = "idle" /\ freq_out = "none"
    /\ fam_args = "idle" /\ fam_pc = "idle" /\ fam_out = "none"
    /\ simulation_config = "idle" /\ simulation_pc = "idle" /\ simulation = "none"
    /\ lk_args = "idle" /\ lk_pc = "idle" /\ lookup_dict = "none" /\ lk_query = "none"
    /\ sim_args = "idle" /\ sim_pc = "idle" /\ sim_out = "none"
    /\ config = "idle" /\ zone = "none" /\ last = "none" /\ skipped = "idle"
    /\ mc3 = "idle" /\ temperature = "idle" /\ holds = "idle" /\ objects = "idle"
    /\ iteration = "idle" /\ checkpoint = "idle" /\ shared = "idle" /\ samples = "idle"
    /\ log = "idle"

\* None is the empty tuple, a value v the tuple <<v>>
None == <<>>

\* parameters = {"uniform": None, "gaussian": None, "distance": None}
empty_parameters == [uniform |-> None, gaussian |-> None, distance |-> None]

\* both entries fitted, whatever the selector
fitted_parameters_both(geo_prior, delaunay, locations, dist) ==
    [empty_parameters EXCEPT !.gaussian = <<covariance(delaunay, locations, dist)>>,
                             !.distance = <<mean_distance(delaunay, dist)>>]

\* the record after the branch of the selector "gaussian" or "distance"
fitted_parameters(geo_prior, delaunay, locations, dist) ==
    IF geo_prior = "gaussian"
    THEN [empty_parameters EXCEPT !.gaussian = <<covariance(delaunay, locations, dist)>>]
    ELSE [empty_parameters EXCEPT !.distance = <<mean_distance(delaunay, dist)>>]

\* estimate_geo_prior_parameters(network, geo_prior)
estimate_geo_prior_parameters ==
    /\ geo_pc = "start"
    /\ IF geo_args.geo_prior = "uniform"
       THEN \* return parameters, before the network is looked at
            geo_pc' = "returned" /\ parameters' = empty_parameters /\ network_reads' = {}
       ELSE \E delaunay \in compute_delaunay(geo_args.locations) :
            LET locations == geo_args.locations
                dist == dist_mat(locations)
            IN /\ network_reads' = {"dist_mat", "locations"}
               /\ IF geo_args.geo_prior \in {"gaussian", "distance"}
                  THEN /\ geo_pc' = "returned"
                       /\ parameters' = fitted_parameters(geo_args.geo_prior, delaunay,
                                                          locations, dist)
                  ELSE \* raise ValueError('geo_prior mut be "uniform", "distance" or "gaussian"')
                       geo_pc' = "raised" /\ parameters' = "none"
    /\ UNCHANGED geo_args
    /\ UNCHANGED <<lookupVars, simVars, networkVars, samplerVars, mc3Vars,
                   priorVars, freqVars, familyVars, simulationVars>>

GeoNext == estimate_geo_prior_parameters

SpecGeo == GeoInit /\ [][GeoNext]_vars

\* the spanning trees of the graph (V, E): |V| - 1 edges that connect V
spanning_trees(V, E) ==
    LET connected(T) ==
            \A U \in SUBSET V : (U # {} /\ U # V) =>
                \E e \in T : e \cap U # {} /\ e \ U # {}
    IN {T \in SUBSET E : Cardinality(T) = Cardinality(V) - 1 /\ connected(T)}

tree_length(T, dist) ==
    SumOverPairs([e \in T |-> LET i == CHOOSE a \in e : TRUE
                                  j == CHOOSE c \in e : c # i
                              IN dist[i][j]], T)

\* the mean edge length of a minimum spanning tree of the graph (V, E)
\* weighted by dist, as the fraction length / (|V| - 1)
mst_mean_edge_length(V, E, dist) ==
    LET trees == spanning_trees(V, E)
        best == CHOOSE T \in trees : \A U \in trees : tree_length(T, dist) <= tree_length(U, dist)
    IN <<tree_length(best, dist), Cardinality(V) - 1>>

\* C10: for geo_prior = "distance" the returned parameters["distance"] is a
\* positive scalar equal to the mean edge length of the minimum spanning tree
\* of the distance-weighted Delaunay graph of the sites.
C10_DistanceIsMeanMSTEdgeLength ==
    (geo_pc = "returned" /\ geo_args.geo_prior = "distance") =>
        /\ parameters.distance # None
        /\ LET value == parameters.distance[1]
               dist == dist_mat(geo_args.locations)
           IN /\ value[1] > 0 /\ value[2] > 0
              /\ \E delaunay \in compute_delaunay(geo_args.locations) :
                   RatEq(value, mst_mean_edge_length(DOMAIN geo_args.locations, delaunay, dist))

\* the spanning trees of minimal length of the graph (V, E) weighted by dist
minimum_spanning_trees(V, E, dist) ==
    LET trees == spanning_trees(V, E)
    IN {T \in trees : \A U \in trees : tree_length(T, dist) <= tree_length(U, dist)}

\* the ways to list the edges of T as index pairs: each edge in one
\* direction or in both
edge_listings(T) ==
    LET pairs == {ij \in (UNION T) \X (UNION T) : {ij[1], ij[2]} \in T}
    IN {nz \in SUBSET pairs : \A e \in T : \E ij \in nz : {ij[1], ij[2]} = e}

\* a 2x2 matrix of fractions over one positive denominator is symmetric and
\* positive semi-definite: non-negative diagonal and determinant
SymmetricPSD(mat) ==
    /\ \A a, b2 \in 1..2 : mat[a][b2][2] > 0 /\ mat[a][b2][2] = mat[1][1][2]
    /\ mat[1][2][1] = mat[2][1][1]
    /\ mat[1][1][1] >= 0 /\ mat[2][2][1] >= 0
    /\ mat[1][1][1] * mat[2][2][1] >= mat[1][2][1] * mat[2][1][1]

MatEq(m1, m2) == \A a, b2 \in 1..2 : RatEq(m1[a][b2], m2[a][b2])

\* C11: for geo_prior = "gaussian" the returned parameters["gaussian"] is a
\* symmetric positive semi-definite 2x2 matrix, the sample covariance of the
\* mean-centred displacement vectors over the edges of a minimum spanning
\* tree of the distance-weighted Delaunay graph.
C11_GaussianIsMSTCovariance ==
    (geo_pc = "returned" /\ geo_args.geo_prior = "gaussian") =>
        /\ parameters.gaussian # None
        /\ SymmetricPSD(parameters.gaussian[1])
        /\ \E delaunay \in compute_delaunay(geo_args.locations) :
             \E T \in minimum_spanning_trees(DOMAIN geo_args.locations, delaunay,
                                              dist_mat(geo_args.locations)) :
               \E nz \in edge_listings(T) :
                 /\ Cardinality(nz) > 1
                 /\ MatEq(parameters.gaussian[1], covariance_over(nz, geo_args.locations))

\* C12: a returned record has the keys uniform, gaussian and distance and at
\* most the entry of the selected family is set: none for "uniform" (and the
\* network is not read), only gaussian for "gaussian", only distance for
\* "distance"; any other selector raises and returns no record.
C12_OnlySelectedFamilySet ==
    /\ geo_pc = "returned" =>
          /\ DOMAIN parameters = {"uniform", "gaussian", "distance"}
          /\ parameters.uniform = None
          /\ geo_args.geo_prior \in {"uniform", "gaussian", "distance"}
          /\ geo_args.geo_prior = "uniform" =>
                parameters.gaussian = None /\ parameters.distance = None
                  /\ network_reads = {}
          /\ geo_args.geo_prior = "gaussian" =>
                parameters.gaussian # None /\ parameters.distance = None
          /\ geo_args.geo_prior = "distance" =>
                parameters.distance # None /\ parameters.gaussian = None
    /\ geo_pc = "raised" =>
          /\ geo_args.geo_prior \notin {"uniform", "gaussian", "distance"}
          /\ parameters = "none"
    /\ geo_pc \in {"returned", "raised"}
          \/ (geo_pc = "start" /\ parameters = "none")

\* a record returned for "gaussian" with only its gaussian entry set
C12_Witness ==
    /\ geo_pc = "returned"
    /\ geo_args.geo_prior = "gaussian"
    /\ parameters.gaussian # None
    /\ parameters.distance = None
    /\ Cardinality(DOMAIN geo_args.locations) = 4

\* ---------------------------------------------------------------------
\* compute_network
\* ---------------------------------------------------------------------

\* v1, v2 = delaunay.toarray().nonzero(): the index pairs of the adjacency
\* matrix that are set, both directions of every edge
adjacency_pairs(V, delaunay) == {ij \in V \X V : {ij[1], ij[2]} \in delaunay}

\* edges = np.column_stack((v1, v2)): the pairs in row-major order
edge_list(V, delaunay) ==
    LET pairs == adjacency_pairs(V, delaunay)
        before(p, q) == p[1] < q[1] \/ (p[1] = q[1] /\ p[2] < q[2])
    IN [k \in Range(Cardinality(pairs)) |->
          CHOOSE q \in pairs : Cardinality({p \in pairs : before(p, q)}) = k]

\* compute_distance(a, b) squared, a and b rows of two numbers
compute_distance_sq(a, b) ==
    (a[1] - b[1]) * (a[1] - b[1]) + (a[2] - b[2]) * (a[2] - b[2])

\* g.add_edge(e[0], e[1], weight=compute_distance(edges[e[0]], edges[e[1]]))
\* for every e of edges; the weight is kept squared
graph_edges(edges) ==
    [k \in DOMAIN edges |->
        [source |-> edges[k][1], target |-> edges[k][2],
         weight_sq |-> compute_distance_sq(edges[edges[k][1]], edges[edges[k][2]])]]

\* the dicts handed to compute_network: the keys of the docstring, the keys
\* get_sites returns, and those with names
SitesKeys ==
    {{"locations", "id"}, {"locations", "cz", "id"}, {"locations", "cz", "id", "names"}}

SitesDicts ==
    {[keys |-> ks, locations |-> l, id |-> [i \in DOMAIN l |-> i],
      cz |-> [i \in DOMAIN l |-> 0], names |-> [i \in DOMAIN l |-> i]] :
        ks \in SitesKeys, l \in Locations}

NetworkInit ==
    /\ sites \in SitesDicts
    /\ net_pc = "start"
    /\ net = "none"
    /\ prior_args = "idle" /\ prior_pc = "idle" /\ prior_out = "none"
    /\ freq_args = "idle" /\ freq_pc = "idle" /\ freq_out = "none"
    /\ fam_args = "idle" /\ fam_pc = "idle" /\ fam_out = "none"
    /\ simulation_config = "idle" /\ simulation_pc = "idle" /\ simulation = "none"
    /\ lk_args = "idle" /\ lk_pc = "idle" /\ lookup_dict = "none" /\ lk_query = "none"
    /\ sim_args = "idle" /\ sim_pc = "idle" /\ sim_out = "none"
    /\ geo_args = "idle" /\ geo_pc = "idle" /\ parameters = "none" /\ network_reads = {}
    /\ config = "idle" /\ zone = "none" /\ last = "none" /\ skipped = "idle"
    /\ mc3 = "idle" /\ temperature = "idle" /\ holds = "idle" /\ objects = "idle"
    /\ iteration = "idle" /\ checkpoint = "idle" /\ shared = "idle" /\ samples = "idle"
    /\ log = "idle"

\* the first key the function subscripts sites with that sites does not have
missing_key(keys) ==
    IF "id" \notin keys THEN "id"
    ELSE IF "locations" \notin keys THEN "locations"
    ELSE IF "names" \notin keys THEN "names"
    ELSE "none"

\* compute_network(sites)
compute_network ==
    /\ net_pc = "start"
    /\ IF missing_key(sites.keys) # "none"
       THEN \* sites[key] raises KeyError
            /\ net_pc' = "raised"
            /\ net' = [error |-> "KeyError", key |-> missing_key(sites.keys)]
       ELSE \E delaunay \in compute_delaunay(sites.locations) :
            LET vertices == sites.id
                edges == edge_list(DOMAIN sites.locations, delaunay)
            IN /\ net_pc' = "returned"
               /\ net' = [vertices |-> vertices,
                          edges |-> edges,
                          locations |-> sites.locations,
                          names |-> sites.names,
                          adj_mat |-> [i \in DOMAIN sites.locations |->
                                         [j \in DOMAIN sites.locations |->
                                            Bit({i, j} \in delaunay)]],
                          n |-> Cardinality(DOMAIN vertices),
                          m |-> Cardinality(DOMAIN edges),
                          graph |-> graph_edges(edges),
                          dist_mat |-> dist_mat(sites.locations)]
    /\ UNCHANGED sites
    /\ UNCHANGED <<lookupVars, simVars, geoVars, samplerVars, mc3Vars,
                   priorVars, freqVars, familyVars, simulationVars>>

NetworkNext == compute_network

SpecNetwork == NetworkInit /\ [][NetworkNext]_vars

\* C13: a returned network has a symmetric distance matrix with a zero
\* diagonal, an edge list that holds (v, u) whenever it holds (u, v), m equal
\* to the number of listed edges and n to the number of vertices.
C13_NetworkSymmetric ==
    net_pc = "returned" =>
        LET V == DOMAIN net.locations
            listed == {net.edges[k] : k \in DOMAIN net.edges}
        IN /\ \A i, j \in V : net.dist_mat[i][j] = net.dist_mat[j][i]
           /\ \A i \in V : net.dist_mat[i][i] = 0
           /\ \A e \in listed : <<e[2], e[1]>> \in listed
           /\ net.m = Cardinality(listed)
           /\ net.m = Cardinality(DOMAIN net.edges)
           /\ net.n = Cardinality(V)
           /\ net.n = Cardinality(DOMAIN net.vertices)

\* a network of four sites returned: four sides and a diagonal, both ways
C13_Witness ==
    /\ net_pc = "returned"
    /\ net.n = 4
    /\ net.m = 10

\* C14: compute_network returns a network for every sites dict that has the
\* keys "locations" and "id", the dict returned by get_sites included, when
\* three or more non-collinear sites are given.
C14_NetworkForDocstringKeys ==
    (net_pc # "start" /\ {"locations", "id"} \subseteq sites.keys) => net_pc = "returned"

\* C27: in the graph of a returned network the weight of every edge (u, v) is
\* the Euclidean distance between the locations of the sites u and v, the
\* entry dist_mat[u][v] of the same network.
C27_EdgeWeightIsSiteDistance ==
    net_pc = "returned" =>
        \A k \in DOMAIN net.graph :
            net.graph[k].weight_sq
              = net.dist_mat[net.graph[k].source][net.graph[k].target]
                  * net.dist_mat[net.graph[k].source][net.graph[k].target]

\* ---------------------------------------------------------------------
\* ZoneMCMC: the zone sampler configured by marginal_likelihood.py
\* ---------------------------------------------------------------------

\* number of sites of the network
NSites == 4

Sites == 1..NSites

\* N_CHAINS chains, here two
Chains == {1, 2}

\* P_TRANSITION_MODE, the cumulative thresholds in hundredths
P_TRANSITION_MODE == [swap |-> 50, grow |-> 75, shrink |-> 100]

\* the move selected by a uniform draw u (in hundredths) against the
\* cumulative thresholds
select_move(u) ==
    IF u < P_TRANSITION_MODE.swap THEN "swap"
    ELSE IF u < P_TRANSITION_MODE.grow THEN "grow"
    ELSE "shrink"

Draws == {0, 49, 50, 74, 75, 99}

\* no size check at all
size_unchecked(k, cfg) == TRUE

\* the candidate's size lies within [min_size, max_size]
size_in_range(k, cfg) == cfg.min_size <= k /\ k <= cfg.max_size

\* the candidates of a move: swap removes one site of the zone and adds one
\* outside it, grow adds one site outside the zone (any site, CONNECTED_ONLY
\* is False), shrink removes one site of the zone
candidates(move, z) ==
    CASE move = "swap" -> {(z \ {out}) \cup {in} : out \in z, in \in Sites \ z}
      [] move = "grow" -> {z \cup {in} : in \in Sites \ z}
      [] move = "shrink" -> {z \ {out} : out \in z}

\* MIN_SIZE, MAX_SIZE, START_SIZE scaled to the network, CONNECTED_ONLY False
Configs ==
    {cfg \in [min_size : {1, 2}, max_size : {NSites - 1, NSites}, start_size : 1..NSites,
              connected_only : {FALSE}] :
        /\ cfg.min_size <= cfg.start_size /\ cfg.start_size <= cfg.max_size
        /\ cfg.start_size \in {cfg.min_size, cfg.max_size}}

\* every chain starts from a zone of start_size sites
SamplerInit ==
    /\ config \in Configs
    /\ zone \in [Chains -> {z \in SUBSET Sites : Cardinality(z) = config.start_size}]
    /\ last = [chain |-> 0, move |-> "none", outcome |-> "none", before |-> {}]
    /\ skipped = [chain \in Chains |-> {}]
    /\ mc3 = "idle" /\ temperature = "idle" /\ holds = "idle" /\ objects = "idle"
    /\ iteration = "idle" /\ checkpoint = "idle" /\ shared = "idle" /\ samples = "idle"
    /\ log = "idle"
    /\ lk_args = "idle" /\ lk_pc = "idle" /\ lookup_dict = "none" /\ lk_query = "none"
    /\ sim_args = "idle" /\ sim_pc = "idle" /\ sim_out = "none"
    /\ geo_args = "idle" /\ geo_pc = "idle" /\ parameters = "none" /\ network_reads = {}
    /\ sites = "idle" /\ net_pc = "idle" /\ net = "none"
    /\ prior_args = "idle" /\ prior_pc = "idle" /\ prior_out = "none"
    /\ freq_args = "idle" /\ freq_pc = "idle" /\ freq_out = "none"
    /\ fam_args = "idle" /\ fam_pc = "idle" /\ fam_out = "none"
    /\ simulation_config = "idle" /\ simulation_pc = "idle" /\ simulation = "none"

\* any move may be drawn again
resample_any(skipped_moves) == {"swap", "grow", "shrink"}

\* the moves that may still be drawn in an iteration: those not skipped
resample_moves(skipped_moves) == {"swap", "grow", "shrink"} \ skipped_moves

\* one proposal of one chain: select a move that was not skipped in this
\* iteration and draw the candidate; a move without candidate, or with a
\* candidate whose size leaves the range, is rejected before scoring and
\* skipped, and the chain draws another move; else the candidate is scored
\* and accepted or rejected by Metropolis-Hastings, which ends the iteration
mcmc_step ==
    /\ \E chain \in Chains : \E move \in {select_move(u) : u \in Draws} :
        LET cands == candidates(move, zone[chain])
            result(outcome) == [chain |-> chain, move |-> move, outcome |-> outcome,
                                before |-> zone[chain]]
            skip == [skipped EXCEPT ![chain] = @ \cup {move}]
            done == [skipped EXCEPT ![chain] = {}]
        IN /\ move \in resample_moves(skipped[chain])
           /\ IF cands = {}
              THEN zone' = zone /\ last' = result("resampled") /\ skipped' = skip
              ELSE \E candidate \in cands :
                     IF ~size_in_range(Cardinality(candidate), config)
                     THEN /\ zone' = zone /\ last' = result("rejected_before_scoring")
                          /\ skipped' = skip
                     ELSE \/ /\ zone' = [zone EXCEPT ![chain] = candidate]
                             /\ last' = result("accepted") /\ skipped' = done
                          \/ /\ zone' = zone
                             /\ last' = result("rejected") /\ skipped' = done
    /\ UNCHANGED config
    /\ UNCHANGED <<lookupVars, simVars, geoVars, networkVars, mc3Vars,
                   priorVars, freqVars, familyVars, simulationVars>>

\* an accepted exchange of the states of two chains, between iterations
exchange ==
    /\ \A chain \in Chains : skipped[chain] = {}
    /\ \E c1, c2 \in Chains :
        /\ c1 # c2
        /\ zone' = [zone EXCEPT ![c1] = zone[c2], ![c2] = zone[c1]]
        /\ last' = [chain |-> 0, move |-> "exchange", outcome |-> "accepted", before |-> {}]
    /\ UNCHANGED <<config, skipped>>
    /\ UNCHANGED <<lookupVars, simVars, geoVars, networkVars, mc3Vars,
                   priorVars, freqVars, familyVars, simulationVars>>

SamplerNext == mcmc_step \/ exchange

SpecSampler == SamplerInit /\ [][SamplerNext]_vars

\* C1: in every chain the zone size stays within [min_size, max_size] after
\* every proposal; a proposal whose candidate leaves the range is rejected
\* before scoring and leaves the chain's zone as it was, and an accepted
\* proposal changed the size by the move's amount.
C1_ZoneSizeWithinBounds ==
    /\ \A chain \in Chains : /\ config.min_size <= Cardinality(zone[chain])
                             /\ Cardinality(zone[chain]) <= config.max_size
    /\ last.outcome \in {"rejected_before_scoring", "rejected", "resampled"} =>
          zone[last.chain] = last.before
    /\ last.outcome = "rejected_before_scoring" =>
          \/ last.move = "grow" /\ Cardinality(last.before) = config.max_size
          \/ last.move = "shrink" /\ Cardinality(last.before) = config.min_size
    /\ (last.outcome = "accepted" /\ last.move = "grow") =>
          Cardinality(zone[last.chain]) = Cardinality(last.before) + 1
    /\ (last.outcome = "accepted" /\ last.move = "shrink") =>
          Cardinality(zone[last.chain]) = Cardinality(last.before) - 1
    /\ (last.outcome = "accepted" /\ last.move = "swap") =>
          Cardinality(zone[last.chain]) = Cardinality(last.before)

\* a grow proposed at max_size, below the number of sites, after the zone
\* had grown from a smaller start: rejected before scoring
C1_Witness ==
    /\ config.start_size < config.max_size
    /\ config.max_size < NSites
    /\ last.outcome = "rejected_before_scoring"
    /\ last.move = "grow"
    /\ Cardinality(zone[last.chain]) = config.max_size

\* the move has no candidate that keeps the size within the range
infeasible(move, z, cfg) ==
    \A candidate \in candidates(move, z) : ~size_in_range(Cardinality(candidate), cfg)

SkipOutcomes == {"rejected_before_scoring", "resampled"}

\* C18: a move without valid candidate (shrink at min_size, grow at max_size
\* or with every site in the zone, swap with no site outside the zone) is
\* skipped with the zone unchanged and the chain then draws a move of
\* another type; some move with a valid candidate is always left, so the
\* iteration does not fail.
C18_InfeasibleMoveResampled ==
    /\ [](/\ \A chain \in Chains :
               /\ \A move \in skipped[chain] : infeasible(move, zone[chain], config)
               /\ \E move \in {"swap", "grow", "shrink"} \ skipped[chain] :
                     ~infeasible(move, zone[chain], config)
          /\ last.outcome \in SkipOutcomes =>
               /\ zone[last.chain] = last.before
               /\ last.move \in skipped[last.chain]
          /\ (last.chain \in Chains /\ last.outcome \in {"accepted", "rejected"}) =>
               skipped[last.chain] = {})
    /\ [][last'.chain \in Chains =>
            /\ last'.move \notin skipped[last'.chain]
            /\ last'.outcome \in SkipOutcomes
                  <=> infeasible(last'.move, zone[last'.chain], config)
            /\ last'.outcome \in SkipOutcomes => zone' = zone]_vars

\* a chain whose zone holds every site has skipped the swap and the grow it
\* drew and is left with the shrink
C18_Witness ==
    /\ last.outcome \in SkipOutcomes
    /\ zone[last.chain] = Sites
    /\ skipped[last.chain] = {"swap", "grow"}

\* ---------------------------------------------------------------------
\* ZoneMCMC.generate_samples: the run of the chains, the swap checkpoints
\* and the samples
\* ---------------------------------------------------------------------

\* N_STEPS, the iterations of every chain
NSteps == 3

\* the temperatures of the chains in hundredths, chain 1 at temperature 1
Temperatures == <<100, 50, 25>>

Moves == {"swap", "grow", "shrink"}

\* N_CHAINS, SWAP_PERIOD, N_SWAPS, N_STEPS and BURN_IN scaled down; zones of
\* all sites but one or of all sites
MC3Configs ==
    [n_chains : {1, 3}, swap_period : {1, 2}, chain_swaps : {1, 2},
     n_steps : {NSteps}, burn_in : {1},
     sizes : {[min_size |-> NSites - 1, max_size |-> NSites, start_size |-> NSites - 1,
               connected_only |-> FALSE]}]

\* the score of a zone: a fixed function of the zone stands for the summed
\* lookups and for the geo-prior
log_likelihood(z) == SumFun([site \in z |-> site])

log_prior(z) == 0 - Cardinality(z)

\* the state of a chain: the zone with its cached log-likelihood and log-prior
chain_state(z) == [zone |-> z, ll |-> log_likelihood(z), prior |-> log_prior(z)]

\* the candidates of a move that keep the size within the range
feasible(move, z, cfg) ==
    {candidate \in candidates(move, z) : size_in_range(Cardinality(candidate), cfg)}

\* Metropolis-Hastings with probability min(1, exp((score_candidate -
\* score_current) / T)): a candidate that scores no lower is accepted, a
\* lower one is accepted or rejected
metropolis_outcomes(current, candidate) ==
    IF candidate.ll + candidate.prior >= current.ll + current.prior
    THEN {TRUE} ELSE {TRUE, FALSE}

\* any two chains
all_pairs(temp) ==
    {pair \in (DOMAIN temp) \X (DOMAIN temp) : pair[1] # pair[2]}

\* a chain with itself, too
pairs_with_self(temp) ==
    {pair \in (DOMAIN temp) \X (DOMAIN temp) : temp[pair[1]] >= temp[pair[2]]}

\* the pairs of chains adjacent in temperature order, the warmer one first
adjacent_pairs(temp) ==
    {pair \in (DOMAIN temp) \X (DOMAIN temp) :
        /\ temp[pair[1]] > temp[pair[2]]
        /\ ~\E c \in DOMAIN temp : temp[pair[1]] > temp[c] /\ temp[c] > temp[pair[2]]}

\* the exchange that also exchanges the temperatures
swap_states_and_temperatures(objs, hold, temp, a, b) ==
    [objects |-> [objs EXCEPT ![hold[a]] = objs[hold[b]], ![hold[b]] = objs[hold[a]]],
     holds |-> hold,
     temperature |-> [temp EXCEPT ![a] = temp[b], ![b] = temp[a]]]

\* the exchange that hands chain a the object of chain b
swap_by_reference(objs, hold, temp, a, b) ==
    [objects |-> objs, holds |-> [hold EXCEPT ![a] = hold[b]], temperature |-> temp]

\* the exchange of the states of the chains a and b: a swap of the values
swap_states(objs, hold, temp, a, b) ==
    [objects |-> [objs EXCEPT ![hold[a]] = objs[hold[b]], ![hold[b]] = objs[hold[a]]],
     holds |-> hold,
     temperature |-> temp]

\* a read that adds the key it asks for to the table
read_shared_defaulting(sh) == [sh EXCEPT !.lh_lookup = 1]

\* scoring reads the network and the lookup table
read_shared(sh) == sh

\* a sample at every iteration of the chain at temperature 1
takes_sample_in_burn_in(temp, it, burn_in) == temp = 100

\* a sample of the chain of the first temperatures at hand
takes_sample_of_warm_chains(temp, it, burn_in) == temp >= 50 /\ it > burn_in

\* a sample is the state of the chain at temperature 1 after an iteration
\* past the burn-in
takes_sample(temp, it, burn_in) == temp = 100 /\ it > burn_in

MC3Init ==
    /\ mc3 \in MC3Configs
    /\ temperature = [c \in 1..mc3.n_chains |-> Temperatures[c]]
    /\ holds = [c \in 1..mc3.n_chains |-> c]
    /\ objects \in [1..mc3.n_chains ->
                      {chain_state(z) : z \in {y \in SUBSET Sites :
                                                 Cardinality(y) = mc3.sizes.start_size}}]
    /\ iteration = [c \in 1..mc3.n_chains |-> 0]
    /\ checkpoint = [completed |-> 0, attempts |-> 0]
    /\ shared = [network |-> 0, lh_lookup |-> 0]
    /\ samples = <<>>
    /\ log = [kind |-> "none", chain |-> 0, pair |-> <<0, 0>>, accepted |-> FALSE,
              sample |-> <<>>]
    /\ lk_args = "idle" /\ lk_pc = "idle" /\ lookup_dict = "none" /\ lk_query = "none"
    /\ sim_args = "idle" /\ sim_pc = "idle" /\ sim_out = "none"
    /\ geo_args = "idle" /\ geo_pc = "idle" /\ parameters = "none" /\ network_reads = {}
    /\ sites = "idle" /\ net_pc = "idle" /\ net = "none"
    /\ prior_args = "idle" /\ prior_pc = "idle" /\ prior_out = "none"
    /\ freq_args = "idle" /\ freq_pc = "idle" /\ freq_out = "none"
    /\ fam_args = "idle" /\ fam_pc = "idle" /\ fam_out = "none"
    /\ simulation_config = "idle" /\ simulation_pc = "idle" /\ simulation = "none"
    /\ config = "idle" /\ zone = "none" /\ last = "none" /\ skipped = "idle"

\* the iteration of the next swap checkpoint
next_checkpoint == (checkpoint.completed + 1) * mc3.swap_period

\* a chain that waits at the checkpoint even when no exchange can take place
waiting_without_partner(c) == iteration[c] = next_checkpoint

\* the chain has reached a swap checkpoint that is not completed
waiting(c) == adjacent_pairs(temperature) # {} /\ iteration[c] = next_checkpoint

\* one iteration of one chain: a feasible move is proposed, scored and
\* accepted or rejected; the chain at temperature 1 yields its state as a
\* sample after the burn-in
step ==
    /\ \E c \in DOMAIN iteration :
        /\ iteration[c] < mc3.n_steps
        /\ ~waiting(c)
        /\ \E move \in Moves :
           \E candidate \in feasible(move, objects[holds[c]].zone, mc3.sizes) :
           \E accepted \in metropolis_outcomes(objects[holds[c]], chain_state(candidate)) :
             LET after == IF accepted THEN chain_state(candidate) ELSE objects[holds[c]]
                 sampled == takes_sample(temperature[c], iteration[c] + 1, mc3.burn_in)
             IN /\ objects' = [objects EXCEPT ![holds[c]] = after]
                /\ iteration' = [iteration EXCEPT ![c] = @ + 1]
                /\ shared' = read_shared(shared)
                /\ samples' = IF sampled
                              THEN Append(samples, [iteration |-> iteration[c] + 1,
                                                    chain |-> c,
                                                    temperature |-> temperature[c]])
                              ELSE samples
                /\ log' = [kind |-> "step", chain |-> c, pair |-> <<0, 0>>,
                           accepted |-> accepted,
                           sample |-> IF sampled THEN <<after>> ELSE <<>>]
    /\ UNCHANGED <<mc3, temperature, holds, checkpoint>>
    /\ UNCHANGED <<lookupVars, simVars, geoVars, networkVars, samplerVars,
                   priorVars, freqVars, familyVars, simulationVars>>

\* one exchange attempt at a swap checkpoint, between two chains adjacent in
\* temperature: accepted, the two states are exchanged; after chain_swaps
\* attempts the checkpoint is completed
swap_chains ==
    /\ \A c \in DOMAIN iteration : iteration[c] = next_checkpoint
    /\ checkpoint.attempts < mc3.chain_swaps
    /\ \E pair \in adjacent_pairs(temperature) : \E accepted \in BOOLEAN :
        LET after == IF accepted
                     THEN swap_states(objects, holds, temperature, pair[1], pair[2])
                     ELSE [objects |-> objects, holds |-> holds, temperature |-> temperature]
        IN /\ objects' = after.objects
           /\ holds' = after.holds
           /\ temperature' = after.temperature
           /\ log' = [kind |-> "exchange", chain |-> 0, pair |-> pair,
                      accepted |-> accepted, sample |-> <<>>]
    /\ checkpoint' = IF checkpoint.attempts + 1 = mc3.chain_swaps
                     THEN [completed |-> checkpoint.completed + 1, attempts |-> 0]
                     ELSE [checkpoint EXCEPT !.attempts = @ + 1]
    /\ UNCHANGED <<mc3, iteration, shared, samples>>
    /\ UNCHANGED <<lookupVars, simVars, geoVars, networkVars, samplerVars,
                   priorVars, freqVars, familyVars, simulationVars>>

MC3Next == step \/ swap_chains

SpecMC3 == MC3Init /\ [][MC3Next]_vars

\* the state chain c works on
state_of(objs, hold, c) == objs[hold[c]]

\* the number of chains in state st
chains_in_state(objs, hold, st) ==
    Cardinality({c \in DOMAIN hold : state_of(objs, hold, c) = st})

\* an exchange attempt is the step that advances the checkpoint record
IsExchange == checkpoint' # checkpoint

\* C15: every chain keeps the temperature it was created with, and an
\* exchange attempt leaves the temperatures and the multiset of the chains'
\* states (zone, log-likelihood, log-prior) as they were.
C15_ExchangeKeepsTemperatures ==
    /\ [](\A c \in DOMAIN temperature : temperature[c] = Temperatures[c])
    /\ [][IsExchange =>
            /\ temperature' = temperature
            /\ \A c \in DOMAIN holds :
                 /\ chains_in_state(objects', holds', state_of(objects, holds, c))
                      = chains_in_state(objects, holds, state_of(objects, holds, c))
                 /\ chains_in_state(objects', holds', state_of(objects', holds', c))
                      = chains_in_state(objects, holds, state_of(objects', holds', c))]_vars

\* an accepted exchange between two chains in different states
C15_Witness ==
    /\ log.kind = "exchange"
    /\ log.accepted
    /\ state_of(objects, holds, log.pair[1]) # state_of(objects, holds, log.pair[2])
    /\ temperature[log.pair[1]] = 50
    /\ temperature[log.pair[2]] = 25

\* C16: with n_chains = 1 no exchange is ever attempted, at any iteration and
\* for every swap_period and chain_swaps: every step of the run is an
\* iteration of the single chain that keeps its state or moves it to a
\* feasible candidate.
C16_SingleChainNeverExchanges ==
    /\ [](mc3.n_chains = 1 =>
            /\ log.kind # "exchange"
            /\ checkpoint = [completed |-> 0, attempts |-> 0])
    /\ [][mc3.n_chains = 1 =>
            /\ log'.kind = "step" /\ log'.chain = 1
            /\ iteration'[1] = iteration[1] + 1
            /\ \/ ~log'.accepted /\ objects' = objects
               \/ /\ log'.accepted
                  /\ \E move \in Moves :
                       \E candidate \in feasible(move, objects[holds[1]].zone, mc3.sizes) :
                         objects' = [objects EXCEPT ![holds[1]] = chain_state(candidate)]]_vars

\* a single chain that has completed its run past several multiples of
\* swap_period
C16_Witness ==
    /\ mc3.n_chains = 1
    /\ mc3.swap_period = 1
    /\ mc3.chain_swaps = 2
    /\ iteration[1] = mc3.n_steps
    /\ log.kind = "step"
    /\ Len(samples) = mc3.n_steps - mc3.burn_in

\* C17: exchanges are attempted only at swap checkpoints, when every chain
\* has completed the same multiple of swap_period iterations; a checkpoint
\* is completed by exactly chain_swaps attempts, each between two chains
\* adjacent in temperature, and no chain passes it before; every other step
\* changes the state of one chain only, by that chain's own iteration.
C17_ExchangesOnlyAtCheckpoints ==
    /\ [](/\ checkpoint.attempts < mc3.chain_swaps
          /\ mc3.n_chains > 1 =>
                \A c \in DOMAIN iteration : iteration[c] <= next_checkpoint
          /\ log.kind = "exchange" =>
                /\ temperature[log.pair[1]] > temperature[log.pair[2]]
                /\ ~\E c \in DOMAIN temperature :
                      /\ temperature[log.pair[1]] > temperature[c]
                      /\ temperature[c] > temperature[log.pair[2]]
                /\ \E k \in 1..mc3.n_steps :
                     \A c \in DOMAIN iteration : iteration[c] = k * mc3.swap_period)
    /\ [][IF IsExchange
          THEN /\ \A c \in DOMAIN iteration : iteration[c] = next_checkpoint
               /\ iteration' = iteration
               /\ IF checkpoint.attempts + 1 = mc3.chain_swaps
                  THEN checkpoint' = [completed |-> checkpoint.completed + 1, attempts |-> 0]
                  ELSE checkpoint' = [completed |-> checkpoint.completed,
                                      attempts |-> checkpoint.attempts + 1]
          ELSE \E c \in DOMAIN iteration :
                 /\ iteration' = [iteration EXCEPT ![c] = @ + 1]
                 /\ \A d \in DOMAIN iteration \ {c} :
                      state_of(objects', holds', d) = state_of(objects, holds, d)]_vars

\* the second of two exchange attempts at the checkpoint of iteration 2 of
\* three chains has completed the checkpoint
C17_Witness ==
    /\ log.kind = "exchange"
    /\ mc3.n_chains = 3
    /\ mc3.swap_period = 2
    /\ mc3.chain_swaps = 2
    /\ checkpoint = [completed |-> 1, attempts |-> 0]
    /\ \A c \in DOMAIN iteration : iteration[c] = 2

\* C19: in every interleaving of the chains the network and the lookup table
\* are never written after construction, no two chains work on the same
\* assignment object, and the state of a chain changes only by that chain's
\* own iteration or by an exchange at a swap checkpoint, which exchanges the
\* two states in one step.
C19_ChainsOwnTheirState ==
    /\ [](/\ shared = [network |-> 0, lh_lookup |-> 0]
          /\ \A a, b \in DOMAIN holds : a # b => holds[a] # holds[b])
    /\ [][\A c \in DOMAIN holds :
            state_of(objects', holds', c) # state_of(objects, holds, c) =>
              \/ /\ ~IsExchange
                 /\ iteration' = [iteration EXCEPT ![c] = @ + 1]
              \/ /\ IsExchange
                 /\ \A d \in DOMAIN iteration : iteration[d] = next_checkpoint
                 /\ c \in {log'.pair[1], log'.pair[2]}
                 /\ state_of(objects', holds', log'.pair[1])
                      = state_of(objects, holds, log'.pair[2])
                 /\ state_of(objects', holds', log'.pair[2])
                      = state_of(objects, holds, log'.pair[1])]_vars

\* after a completed checkpoint one chain has moved on by an accepted
\* proposal while another still stands at the checkpoint
C19_Witness ==
    /\ mc3.n_chains = 3
    /\ checkpoint.completed = 1
    /\ log.kind = "step"
    /\ log.accepted
    /\ iteration[log.chain] = mc3.swap_period + 1
    /\ \E d \in DOMAIN iteration : iteration[d] = mc3.swap_period

RunConfigs ==
    [n_chains : {1, 2}, swap_period : {1, 2}, chain_swaps : {1, 2},
     n_steps : {NSteps}, burn_in : {1},
     sizes : {[min_size |-> NSites - 1, max_size |-> NSites, start_size |-> start,
               connected_only |-> FALSE] : start \in {NSites - 1, NSites}}]

RunInit ==
    /\ mc3 \in RunConfigs
    /\ temperature = [c \in 1..mc3.n_chains |-> Temperatures[c]]
    /\ holds = [c \in 1..mc3.n_chains |-> c]
    /\ objects \in [1..mc3.n_chains ->
                      {chain_state(z) : z \in {y \in SUBSET Sites :
                                                 Cardinality(y) = mc3.sizes.start_size}}]
    /\ iteration = [c \in 1..mc3.n_chains |-> 0]
    /\ checkpoint = [completed |-> 0, attempts |-> 0]
    /\ shared = [network |-> 0, lh_lookup |-> 0]
    /\ samples = <<>>
    /\ log = [kind |-> "none", chain |-> 0, pair |-> <<0, 0>>, accepted |-> FALSE,
              sample |-> <<>>]
    /\ skipped = [c \in 1..mc3.n_chains |-> {}]
    /\ lk_args = "idle" /\ lk_pc = "idle" /\ lookup_dict = "none" /\ lk_query = "none"
    /\ sim_args = "idle" /\ sim_pc = "idle" /\ sim_out = "none"
    /\ geo_args = "idle" /\ geo_pc = "idle" /\ parameters = "none" /\ network_reads = {}
    /\ sites = "idle" /\ net_pc = "idle" /\ net = "none"
    /\ prior_args = "idle" /\ prior_pc = "idle" /\ prior_out = "none"
    /\ freq_args = "idle" /\ freq_pc = "idle" /\ freq_out = "none"
    /\ fam_args = "idle" /\ fam_pc = "idle" /\ fam_out = "none"
    /\ simulation_config = "idle" /\ simulation_pc = "idle" /\ simulation = "none"
    /\ config = "idle" /\ zone = "none" /\ last = "none"

\* within an iteration a chain draws a move that has no valid candidate: the
\* move is skipped and the chain will draw a move of another type
resample ==
    /\ \E c \in DOMAIN iteration :
        /\ iteration[c] < mc3.n_steps
        /\ ~waiting(c)
        /\ \E move \in resample_moves(skipped[c]) :
            /\ feasible(move, objects[holds[c]].zone, mc3.sizes) = {}
            /\ skipped' = [skipped EXCEPT ![c] = @ \cup {move}]
            /\ log' = [kind |-> "resample", chain |-> c, pair |-> <<0, 0>>,
                       accepted |-> FALSE, sample |-> <<>>]
    /\ UNCHANGED <<mc3, temperature, holds, objects, iteration, checkpoint, shared, samples>>
    /\ UNCHANGED <<config, zone, last>>
    /\ UNCHANGED <<lookupVars, simVars, geoVars, networkVars,
                   priorVars, freqVars, familyVars, simulationVars>>

\* a chain draws a move that has a valid candidate: the candidate is scored
\* and accepted or rejected, which completes the iteration
iterate ==
    /\ \E c \in DOMAIN iteration :
        /\ iteration[c] < mc3.n_steps
        /\ ~waiting(c)
        /\ \E move \in resample_moves(skipped[c]) :
           \E candidate \in feasible(move, objects[holds[c]].zone, mc3.sizes) :
           \E accepted \in metropolis_outcomes(objects[holds[c]], chain_state(candidate)) :
             LET after == IF accepted THEN chain_state(candidate) ELSE objects[holds[c]]
                 sampled == takes_sample(temperature[c], iteration[c] + 1, mc3.burn_in)
             IN /\ objects' = [objects EXCEPT ![holds[c]] = after]
                /\ iteration' = [iteration EXCEPT ![c] = @ + 1]
                /\ skipped' = [skipped EXCEPT ![c] = {}]
                /\ shared' = read_shared(shared)
                /\ samples' = IF sampled
                              THEN Append(samples, [iteration |-> iteration[c] + 1,
                                                    chain |-> c,
                                                    temperature |-> temperature[c]])
                              ELSE samples
                /\ log' = [kind |-> "step", chain |-> c, pair |-> <<0, 0>>,
                           accepted |-> accepted,
                           sample |-> IF sampled THEN <<after>> ELSE <<>>]
    /\ UNCHANGED <<mc3, temperature, holds, checkpoint>>
    /\ UNCHANGED <<config, zone, last>>
    /\ UNCHANGED <<lookupVars, simVars, geoVars, networkVars,
                   priorVars, freqVars, familyVars, simulationVars>>

RunNext == resample \/ iterate \/ swap_chains

SpecRun == RunInit /\ [][RunNext]_vars

\* the sampler is a loop that keeps running: a run does not stop while a
\* chain can draw a move or an exchange is due
SpecRunFair == SpecRun /\ WF_vars(RunNext)

\* all chains have completed their last iteration and the samples of all
\* iterations past the burn-in are there
run_finished ==
    /\ \A c \in DOMAIN iteration : iteration[c] = mc3.n_steps
    /\ Len(samples) = mc3.n_steps - mc3.burn_in

neighbours(site) == {other \in Sites : Abs(site - other) = 1}

\* the sites reached from the sites of frontier within the zone z
RECURSIVE reached(_, _)
reached(frontier, z) ==
    LET next == frontier \cup {site \in z : \E from \in frontier : site \in neighbours(from)}
    IN IF next = frontier THEN frontier ELSE reached(next, z)

\* the subgraph induced by the zone z is connected
is_connected(z) == z = {} \/ \E site \in z : reached({site}, z) = z

\* the sites that may be added to the zone z
addable(z, connected_only) ==
    IF connected_only
    THEN {site \in Sites \ z : \E member \in z : site \in neighbours(member)}
    ELSE Sites \ z

\* the candidates of a move on the zone z: swap removes one site of the zone
\* and adds one outside it, grow adds one site, adjacent if connected_only,
\* shrink removes one site of the zone
zone_candidates(move, z, connected_only) ==
    CASE move = "swap" -> {(z \ {out}) \cup {in} : out \in z, in \in Sites \ z}
      [] move = "grow" -> {z \cup {in} : in \in addable(z, connected_only)}
      [] move = "shrink" -> {z \ {out} : out \in z}

\* MIN_SIZE, MAX_SIZE, START_SIZE scaled to the network, with and without
\* CONNECTED_ONLY
ZoneConfigs ==
    {cfg \in [min_size : {1, 2}, max_size : {NSites - 1, NSites}, start_size : 2..NSites,
              connected_only : BOOLEAN] :
        cfg.min_size <= cfg.start_size /\ cfg.start_size <= cfg.max_size}

\* the chain starts to grow its zone from one site
ZoneInit ==
    /\ config \in ZoneConfigs
    /\ zone \in [{1} -> {{site} : site \in Sites}]
    /\ last = [chain |-> 1, move |-> "start", outcome |-> "growing", before |-> {}]
    /\ skipped = "idle"
    /\ mc3 = "idle" /\ temperature = "idle" /\ holds = "idle" /\ objects = "idle"
    /\ iteration = "idle" /\ checkpoint = "idle" /\ shared = "idle" /\ samples = "idle"
    /\ log = "idle"
    /\ lk_args = "idle" /\ lk_pc = "idle" /\ lookup_dict = "none" /\ lk_query = "none"
    /\ sim_args = "idle" /\ sim_pc = "idle" /\ sim_out = "none"
    /\ geo_args = "idle" /\ geo_pc = "idle" /\ parameters = "none" /\ network_reads = {}
    /\ sites = "idle" /\ net_pc = "idle" /\ net = "none"
    /\ prior_args = "idle" /\ prior_pc = "idle" /\ prior_out = "none"
    /\ freq_args = "idle" /\ freq_pc = "idle" /\ freq_out = "none"
    /\ fam_args = "idle" /\ fam_pc = "idle" /\ fam_out = "none"
    /\ simulation_config = "idle" /\ simulation_pc = "idle" /\ simulation = "none"

\* initial growth: one more site is added until the zone has start_size sites
grow_start ==
    /\ last.outcome = "growing"
    /\ \E site \in addable(zone[1], config.connected_only) :
        /\ zone' = [zone EXCEPT ![1] = @ \cup {site}]
        /\ last' = [chain |-> 1, move |-> "start",
                    outcome |-> IF Cardinality(zone[1]) + 1 = config.start_size
                                THEN "grown" ELSE "growing",
                    before |-> zone[1]]
    /\ UNCHANGED <<config, skipped>>
    /\ UNCHANGED <<lookupVars, simVars, geoVars, networkVars, mc3Vars,
                   priorVars, freqVars, familyVars, simulationVars>>

\* one proposal: a candidate of the selected move within the size range is
\* accepted or rejected; a move without such a candidate is rejected before
\* scoring
propose ==
    /\ last.outcome # "growing"
    /\ \E move \in {select_move(u) : u \in Draws} :
        LET cands == {candidate \in zone_candidates(move, zone[1], config.connected_only) :
                         size_in_range(Cardinality(candidate), config)}
            result(outcome) == [chain |-> 1, move |-> move, outcome |-> outcome,
                                before |-> zone[1]]
        IN IF cands = {}
           THEN zone' = zone /\ last' = result("rejected_before_scoring")
           ELSE \E candidate \in cands :
                  \/ zone' = [zone EXCEPT ![1] = candidate] /\ last' = result("accepted")
                  \/ zone' = zone /\ last' = result("rejected")
    /\ UNCHANGED <<config, skipped>>
    /\ UNCHANGED <<lookupVars, simVars, geoVars, networkVars, mc3Vars,
                   priorVars, freqVars, familyVars, simulationVars>>

ZoneNext == grow_start \/ propose

SpecZone == ZoneInit /\ [][ZoneNext]_vars

feature_names == [external |-> <<"F1">>, internal |-> <<"f1">>]
category_names == [external |-> << <<"N", "Y">> >>, internal |-> << <<0, 1>> >>]

\* what read_feature_occurrence_from_csv returns for a counts file: whether
\* all counts are whole numbers, the feature names and the category names
FeatureNamesInFile ==
    [external : {<<"F1">>, <<"F2">>, <<"F1", "F2">>},
     internal : {<<"f1">>, <<"f2">>, <<"f1", "f2">>}]
CategoryNamesInFile ==
    [external : {<< <<"N", "Y">> >>, << <<"N", "X">> >>, << <<"N", "Y">>, <<"N", "Y">> >>},
     internal : {<< <<0, 1>> >>, << <<0, 2>> >>, << <<0, 1>>, <<0, 1>> >>}]
CountFiles ==
    [counts_integer : BOOLEAN, feature_names : FeatureNamesInFile,
     category_names : CategoryNamesInFile]

\* two families; the file of a family is there (<<file>>) or missing (None)
PriorArgs == [files : [1..2 -> {None} \cup {<<file>> : file \in CountFiles}]]

PriorsInit ==
    /\ prior_args \in PriorArgs
    /\ prior_pc = "ready"
    /\ prior_out = [raised |-> "none", file |-> 0, message |-> "none", counts |-> <<>>]
    /\ freq_args = "idle" /\ freq_pc = "idle" /\ freq_out = "none"
    /\ fam_args = "idle" /\ fam_pc = "idle" /\ fam_out = "none"
    /\ simulation_config = "idle" /\ simulation_pc = "idle" /\ simulation = "none"
    /\ lk_args = "idle" /\ lk_pc = "idle" /\ lookup_dict = "none" /\ lk_query = "none"
    /\ sim_args = "idle" /\ sim_pc = "idle" /\ sim_out = "none"
    /\ geo_args = "idle" /\ geo_pc = "idle" /\ parameters = "none" /\ network_reads = {}
    /\ sites = "idle" /\ net_pc = "idle" /\ net = "none"
    /\ config = "idle" /\ zone = "none" /\ last = "none" /\ skipped = "idle"
    /\ mc3 = "idle" /\ temperature = "idle" /\ holds = "idle" /\ objects = "idle"
    /\ iteration = "idle" /\ checkpoint = "idle" /\ shared = "idle" /\ samples = "idle"
    /\ log = "idle"

\* the comparison made for the internal category names: it reads the
\* internal feature names
internal_categories_differ(f, file) ==
    feature_names.internal[f] # file.feature_names.internal[f]

\* the sanity check of one file: the message of the ValueError it raises, or
\* "none"
sanity_check(file) ==
    IF ~file.counts_integer THEN "must be count data"
    ELSE IF \/ Len(feature_names.external) # Len(file.feature_names.external)
            \/ Len(feature_names.internal) # Len(file.feature_names.internal)
         THEN "different number of features"
    ELSE IF \E f \in 1..Len(feature_names.external) :
               feature_names.external[f] # file.feature_names.external[f]
         THEN "external feature differs"
    ELSE IF \E f \in 1..Len(feature_names.external) :
               feature_names.internal[f] # file.feature_names.internal[f]
         THEN "internal feature name differs"
    ELSE IF \/ Len(category_names.external) # Len(file.category_names.external)
            \/ Len(category_names.internal) # Len(file.category_names.internal)
         THEN "different number of features (categories)"
    ELSE IF \E f \in 1..Len(category_names.external) :
               category_names.external[f] # file.category_names.external[f]
         THEN "external category names differ"
    ELSE IF \E f \in 1..Len(category_names.external) : internal_categories_differ(f, file)
         THEN "internal category names differ"
    ELSE "none"

\* the loop over the families from family n on: a missing file gives zero
\* counts, a file that fails the sanity check ends the call
RECURSIVE family_counts(_, _, _)
family_counts(n, files, counts) ==
    IF n > Len(files)
    THEN [raised |-> "none", file |-> 0, message |-> "none", counts |-> counts]
    ELSE IF files[n] = None
    THEN family_counts(n + 1, files, Append(counts, "zeros"))
    ELSE IF sanity_check(files[n][1]) # "none"
    THEN [raised |-> "ValueError", file |-> n, message |-> sanity_check(files[n][1]),
          counts |-> <<>>]
    ELSE family_counts(n + 1, files, Append(counts, "counts_fam"))

get_family_priors ==
    /\ prior_pc = "ready"
    /\ prior_out' = family_counts(1, [n \in 1..2 |-> prior_args.files[n]], <<>>)
    /\ prior_pc' = "done"
    /\ UNCHANGED prior_args
    /\ UNCHANGED <<lookupVars, simVars, geoVars, networkVars, samplerVars, mc3Vars,
                   freqVars, familyVars, simulationVars>>

PriorsNext == get_family_priors

SpecPriors == PriorsInit /\ [][PriorsNext]_vars

\* the file of family n is there and its counts or its names do not fit
offending(n) ==
    /\ prior_args.files[n] # None
    /\ \/ ~prior_args.files[n][1].counts_integer
       \/ prior_args.files[n][1].feature_names # feature_names
       \/ prior_args.files[n][1].category_names # category_names

\* C23: get_family_priors raises a ValueError that names an offending file
\* whenever a file's counts are not integers or its feature or category
\* names, external or internal, differ from those of the features, and then
\* returns nothing; a missing file gives zero counts and the other families
\* are still processed.
C23_ValueErrorNamesOffendingFile ==
    prior_pc = "done" =>
        IF \E n \in 1..2 : offending(n)
        THEN /\ prior_out.raised = "ValueError"
             /\ prior_out.file \in {n \in 1..2 : offending(n)}
             /\ prior_out.counts = <<>>
        ELSE /\ prior_out.raised = "none"
             /\ \A n \in 1..2 :
                   prior_out.counts[n] = IF prior_args.files[n] = None THEN "zeros"
                                         ELSE "counts_fam"

(***************************************************************************)
(* get_global_frequencies                                                  *)
(***************************************************************************)
\* the sum of two exact fractions
RatAdd(a, b) == <<a[1] * b[2] + b[1] * a[2], a[2] * b[2]>>

\* np.sum over the entries of a row
RECURSIVE row_sum(_)
row_sum(row) ==
    IF row = <<>> THEN <<0, 1>> ELSE RatAdd(row[1], row_sum(Tail(row)))

\* the entries of a table read from a file: 0, 1, 3 and 1/2
FileEntries == {<<0, 1>>, <<1, 1>>, <<3, 1>>, <<1, 2>>}
FileRows == [1..2 -> FileEntries]
FileTables == [1..1 -> FileRows] \cup [1..2 -> FileRows]

\* one-hot features of two sites, one feature and two categories
FeatureArrays == [1..2 -> [1..1 -> {<<0, 1>>, <<1, 0>>, <<0, 0>>}]]

FreqArgs ==
    [estimate_from_data : {TRUE}, features : {None} \cup {<<feat>> : feat \in FeatureArrays},
     file : {<<>>}]
    \cup [estimate_from_data : {FALSE}, features : {None}, file : FileTables]

FreqInit ==
    /\ freq_args \in FreqArgs
    /\ freq_pc = "ready"
    /\ freq_out = [raised |-> "none", names_file |-> FALSE, value |-> <<>>]
    /\ prior_args = "idle" /\ prior_pc = "idle" /\ prior_out = "none"
    /\ fam_args = "idle" /\ fam_pc = "idle" /\ fam_out = "none"
    /\ simulation_config = "idle" /\ simulation_pc = "idle" /\ simulation = "none"
    /\ lk_args = "idle" /\ lk_pc = "idle" /\ lookup_dict = "none" /\ lk_query = "none"
    /\ sim_args = "idle" /\ sim_pc = "idle" /\ sim_out = "none"
    /\ geo_args = "idle" /\ geo_pc = "idle" /\ parameters = "none" /\ network_reads = {}
    /\ sites = "idle" /\ net_pc = "idle" /\ net = "none"
    /\ config = "idle" /\ zone = "none" /\ last = "none" /\ skipped = "idle"
    /\ mc3 = "idle" /\ temperature = "idle" /\ holds = "idle" /\ objects = "idle"
    /\ iteration = "idle" /\ checkpoint = "idle" /\ shared = "idle" /\ samples = "idle"
    /\ log = "idle"

\* p[f] = counts / n_sites for every feature f
compute_global_freq_from_data(feat) ==
    LET n_sites == Len(feat)
        n_features == Len(feat[1])
        n_categories == Len(feat[1][1])
    IN [f \in 1..n_features |->
          [cat \in 1..n_categories |->
             <<SumFun([site \in 1..n_sites |-> feat[site][f][cat]]), n_sites>>]]

\* np.allclose(np.nansum(global_freq, axis=-1), 1.): every row sums to 1
rows_sum_to_one(global_freq) ==
    \A f \in DOMAIN global_freq : RatEq(row_sum(global_freq[f]), <<1, 1>>)

\* the elements that iterating over the table yields: its rows, as arrays
elements(global_freq) ==
    {[type |-> "ndarray", value |-> global_freq[f]] : f \in DOMAIN global_freq}

\* isinstance(x, int)
isinstance_int(x) == x.type = "int"

\* global_freq / np.sum(global_freq, axis=1, keepdims=True)
row_normalised(global_freq) ==
    [f \in DOMAIN global_freq |->
       [cat \in DOMAIN global_freq[f] |->
          <<global_freq[f][cat][1] * row_sum(global_freq[f])[2],
            global_freq[f][cat][2] * row_sum(global_freq[f])[1]>>]]

get_global_frequencies ==
    /\ freq_pc = "ready"
    /\ freq_out' =
         IF freq_args.estimate_from_data
         THEN IF freq_args.features = None
              THEN [raised |-> "ValueError", names_file |-> FALSE, value |-> <<>>]
              ELSE [raised |-> "none", names_file |-> FALSE,
                    value |-> compute_global_freq_from_data(freq_args.features[1])]
         ELSE IF rows_sum_to_one(freq_args.file)
              THEN [raised |-> "none", names_file |-> FALSE, value |-> freq_args.file]
              ELSE IF \A x \in elements(freq_args.file) : isinstance_int(x)
                   THEN [raised |-> "none", names_file |-> FALSE,
                         value |-> row_normalised(freq_args.file)]
                   ELSE [raised |-> "ValueError", names_file |-> TRUE, value |-> <<>>]
    /\ freq_pc' = "done"
    /\ UNCHANGED freq_args
    /\ UNCHANGED <<lookupVars, simVars, geoVars, networkVars, samplerVars, mc3Vars,
                   priorVars, familyVars, simulationVars>>

FreqNext == get_global_frequencies

SpecFreq == FreqInit /\ [][FreqNext]_vars

\* the table holds count data: every entry is a whole number
count_data(table) ==
    \A f \in DOMAIN table : \A cat \in DOMAIN table[f] : table[f][cat][2] = 1

\* the table is the table of the file with every row divided by its sum
normalised_from(value, table) ==
    /\ DOMAIN value = DOMAIN table
    /\ \A f \in DOMAIN table : \A cat \in DOMAIN table[f] :
          /\ value[f][cat][2] # 0
          /\ RatEq(RatAdd(value[f][1], value[f][2]), <<1, 1>>)
          /\ value[f][cat][1] * table[f][cat][2] * row_sum(table[f])[1]
               = table[f][cat][1] * row_sum(table[f])[2] * value[f][cat][2]

\* C24: in file mode get_global_frequencies returns the table of the file
\* unchanged when every row sums to 1, the row-normalised table when the file
\* holds counts (with no row of zeros only), and raises a ValueError naming
\* the file when it holds neither; in estimate-from-data mode without
\* features it raises ValueError.
C24_GlobalFrequenciesByMode ==
    freq_pc = "done" =>
        IF freq_args.estimate_from_data
        THEN freq_args.features = None => freq_out.raised = "ValueError"
        ELSE IF \A f \in DOMAIN freq_args.file :
                   RatEq(RatAdd(freq_args.file[f][1], freq_args.file[f][2]), <<1, 1>>)
             THEN freq_out.raised = "none" /\ freq_out.value = freq_args.file
             ELSE IF count_data(freq_args.file)
                  THEN (\A f \in DOMAIN freq_args.file : row_sum(freq_args.file[f])[1] > 0)
                       => /\ freq_out.raised = "none"
                          /\ normalised_from(freq_out.value, freq_args.file)
                  ELSE freq_out.raised = "ValueError" /\ freq_out.names_file

(***************************************************************************)
(* simulate_families                                                       *)
(***************************************************************************)
\* up to NSites sites with the ids 0, 1, ..., one or two families
FamilyArgs ==
    [n_sites : 1..NSites, n_families : 1..2, max_family_size : 1..3, min_family_size : 0..2]

FamiliesInit ==
    /\ fam_args \in FamilyArgs
    /\ fam_pc = "ready"
    /\ fam_out = [raised |-> "none", families |-> <<>>]
    /\ prior_args = "idle" /\ prior_pc = "idle" /\ prior_out = "none"
    /\ freq_args = "idle" /\ freq_pc = "idle" /\ freq_out = "none"
    /\ simulation_config = "idle" /\ simulation_pc = "idle" /\ simulation = "none"
    /\ lk_args = "idle" /\ lk_pc = "idle" /\ lookup_dict = "none" /\ lk_query = "none"
    /\ sim_args = "idle" /\ sim_pc = "idle" /\ sim_out = "none"
    /\ geo_args = "idle" /\ geo_pc = "idle" /\ parameters = "none" /\ network_reads = {}
    /\ sites = "idle" /\ net_pc = "idle" /\ net = "none"
    /\ config = "idle" /\ zone = "none" /\ last = "none" /\ skipped = "idle"
    /\ mc3 = "idle" /\ temperature = "idle" /\ holds = "idle" /\ objects = "idle"
    /\ iteration = "idle" /\ checkpoint = "idle" /\ shared = "idle" /\ samples = "idle"
    /\ log = "idle"

\* np.random.randint(low, high): the integers from low up to, not including,
\* high; it raises ValueError when there is none
randint(low, high) == low..(high - 1)

\* the sites stay available to the next family
sites_kept(remaining, f) == remaining

\* sites = [s for s in sites if s not in f]
sites_not_in(remaining, f) == remaining \ f

\* the loop over the families still to draw: the results the draws can give
RECURSIVE draw_families(_, _, _, _)
draw_families(to_draw, remaining, sites_in_family, args) ==
    IF to_draw = 0 THEN {[raised |-> "none", families |-> sites_in_family]}
    ELSE IF randint(args.min_family_size, args.max_family_size) = {}
    THEN {[raised |-> "ValueError", families |-> <<>>]}
    ELSE UNION {IF f_size > Cardinality(remaining)
                THEN \* np.random.choice: larger sample than population
                     {[raised |-> "ValueError", families |-> <<>>]}
                ELSE UNION {draw_families(to_draw - 1, sites_not_in(remaining, f),
                                          Append(sites_in_family, f), args) :
                              f \in {g \in SUBSET remaining : Cardinality(g) = f_size}} :
                  f_size \in randint(args.min_family_size, args.max_family_size)}

\* simulate_families(sites, n_families, max_family_size, min_family_size):
\* row k of families is True at the sites of family k
simulate_families ==
    /\ fam_pc = "ready"
    /\ fam_out' \in draw_families(fam_args.n_families, Range(fam_args.n_sites), <<>>, fam_args)
    /\ fam_pc' = "done"
    /\ UNCHANGED fam_args
    /\ UNCHANGED <<lookupVars, simVars, geoVars, networkVars, samplerVars, mc3Vars,
                   priorVars, freqVars, simulationVars>>

FamiliesNext == simulate_families

SpecFamilies == FamiliesInit /\ [][FamiliesNext]_vars

\* C26: every family that simulate_families produces has between
\* min_family_size and max_family_size members, and no site is a member of
\* two families.
C26_FamilySizesAndDisjoint ==
    (fam_pc = "done" /\ fam_out.raised = "none") =>
        /\ Len(fam_out.families) = fam_args.n_families
        /\ \A k \in DOMAIN fam_out.families :
              /\ fam_args.min_family_size <= Cardinality(fam_out.families[k])
              /\ Cardinality(fam_out.families[k]) <= fam_args.max_family_size
              /\ fam_out.families[k] \subseteq Range(fam_args.n_sites)
        /\ \A k, l \in DOMAIN fam_out.families :
              k # l => fam_out.families[k] \cap fam_out.families[l] = {}

\* two families of different sizes that together take all the sites
C26_Witness ==
    /\ fam_pc = "done"
    /\ fam_out.raised = "none"
    /\ fam_args.n_families = 2
    /\ Cardinality(fam_out.families[1]) # Cardinality(fam_out.families[2])
    /\ fam_out.families[1] # {} /\ fam_out.families[2] # {}
    /\ fam_out.families[1] \cup fam_out.families[2] = Range(fam_args.n_sites)

(***************************************************************************)
(* Simulation.run_simulation                                               *)
(***************************************************************************)
\* the areas simulate_areas returns for the sites 0 .. NSites - 1: one or two
\* areas, each with a site, a site in one area at most
SimulatedAreas ==
    {areas \in UNION {[Range(n_areas) -> [Range(NSites) -> BOOLEAN]] : n_areas \in 1..2} :
        /\ \A k \in DOMAIN areas : \E site \in Range(NSites) : areas[k][site]
        /\ \A k, l \in DOMAIN areas : \A site \in Range(NSites) :
              (k # l /\ areas[k][site]) => ~areas[l][site]}

\* the configuration and what the preprocessing functions hand back: the
\* SUBSET switch (use_subset), the subset flag of every site and the simulated areas
SimulationConfigs ==
    [use_subset : BOOLEAN, subset : [Range(NSites) -> BOOLEAN], areas : SimulatedAreas]

SimulationInit ==
    /\ simulation_config \in SimulationConfigs
    /\ simulation_pc = "ready"
    /\ simulation = [network |-> <<>>, areas |-> <<>>, features |-> <<>>]
    /\ prior_args = "idle" /\ prior_pc = "idle" /\ prior_out = "none"
    /\ freq_args = "idle" /\ freq_pc = "idle" /\ freq_out = "none"
    /\ fam_args = "idle" /\ fam_pc = "idle" /\ fam_out = "none"
    /\ lk_args = "idle" /\ lk_pc = "idle" /\ lookup_dict = "none" /\ lk_query = "none"
    /\ sim_args = "idle" /\ sim_pc = "idle" /\ sim_out = "none"
    /\ geo_args = "idle" /\ geo_pc = "idle" /\ parameters = "none" /\ network_reads = {}
    /\ sites = "idle" /\ net_pc = "idle" /\ net = "none"
    /\ config = "idle" /\ zone = "none" /\ last = "none" /\ skipped = "idle"
    /\ mc3 = "idle" /\ temperature = "idle" /\ holds = "idle" /\ objects = "idle"
    /\ iteration = "idle" /\ checkpoint = "idle" /\ shared = "idle" /\ samples = "idle"
    /\ log = "idle"

\* np.nonzero(subset)[0]: the indices of the flagged sites in rising order
nonzero_indices(subset) ==
    LET flagged == {site \in DOMAIN subset : subset[site]}
    IN [i \in Range(Cardinality(flagged)) |->
          CHOOSE site \in flagged : Cardinality({t \in flagged : t < site}) = i]

\* row[sub_idx]: the entries of the row at the indices, in their order
take(row, sub_idx) == [i \in DOMAIN sub_idx |-> row[sub_idx[i]]]

\* the features of the sites: one row per site, here the id of the site
simulated_features == [site \in Range(NSites) |-> site]

\* compute_network(sites) and compute_network(sites, subset): the vertices
network_of(sub_idx) == [vertices |-> sub_idx]

\* areas[np.newaxis, 0, sub_idx]: row 0 at the indices, as the only row
first_area_at(areas, sub_idx) == [k \in Range(1) |-> take(areas[0], sub_idx)]

run_simulation ==
    /\ simulation_pc = "ready"
    /\ LET all_sites == [site \in Range(NSites) |-> site]
           sub_idx == nonzero_indices(simulation_config.subset)
       IN simulation' =
            IF ~simulation_config.use_subset
            THEN [network |-> network_of(all_sites),
                  areas |-> simulation_config.areas, features |-> simulated_features]
            ELSE [network |-> network_of(sub_idx),
                  areas |-> first_area_at(simulation_config.areas, sub_idx),
                  features |-> take(simulated_features, sub_idx)]
    /\ simulation_pc' = "done"
    /\ UNCHANGED simulation_config
    /\ UNCHANGED <<lookupVars, simVars, geoVars, networkVars, samplerVars, mc3Vars,
                   priorVars, freqVars, familyVars>>

SimulationNext == run_simulation

SpecSimulation == SimulationInit /\ [][SimulationNext]_vars

\* the sites of the subset in rising order
subset_sites ==
    LET flagged == {site \in Range(NSites) : simulation_config.subset[site]}
    IN [i \in Range(Cardinality(flagged)) |->
          CHOOSE site \in flagged : Cardinality({t \in flagged : t < site}) = i]

\* C28: with SUBSET run_simulation ends with network, areas and features
\* restricted to exactly the subset sites, areas with one row per simulated
\* area, each restricted to the subset sites; without SUBSET all three are
\* left as simulated on all sites.
C28_SubsetRestrictsAllAreas ==
    simulation_pc = "done" =>
        IF simulation_config.use_subset
        THEN /\ simulation.network.vertices = subset_sites
             /\ simulation.features = [i \in DOMAIN subset_sites |-> subset_sites[i]]
             /\ DOMAIN simulation.areas = DOMAIN simulation_config.areas
             /\ \A k \in DOMAIN simulation_config.areas :
                   simulation.areas[k]
                     = [i \in DOMAIN subset_sites |->
                          simulation_config.areas[k][subset_sites[i]]]
        ELSE /\ simulation.network.vertices = [site \in Range(NSites) |-> site]
             /\ simulation.features = [site \in Range(NSites) |-> site]
             /\ simulation.areas = simulation_config.areas

====
